---- MODULE Spec2Model ----
(***************************************************************************)
(* Retrieval / fusion core and knowledge-graph construction of the legal   *)
(* corpus search service.                                                  *)
(*                                                                         *)
(*   SpecFusion : /api/search/combined  (src/app.py)                       *)
(*   SpecRerank : cosine_search_with_concepts (src/src/embeddings.py)      *)
(*   SpecBuild  : build_legal_graph (src/src/graph_builder.py)             *)
(*   SpecPayload: build_legal_graph over raw stored payloads               *)
(*   SpecGraphStep : build then export_graph_to_neo4j (src/main.py,        *)
(*                   src/src/neo4j_exporter.py)                            *)
(*   SpecApi    : the search endpoints with their stores (src/app.py)      *)
(*   SpecGraphSearch : graph_semantic_search (src/src/graph_query.py)      *)
(*                                                                         *)
(* Scores are Python floats in the source.  They are modelled as exact     *)
(* rationals <<numerator, denominator>> with a positive denominator; the   *)
(* magnitudes reached within the bounds are far from the float rounding    *)
(* granularity, so the order of two distinct scores is the same.           *)
(***************************************************************************)
EXTENDS Integers, Sequences, FiniteSets, TLC

VARIABLES
    \* ---- combined search endpoint (src/app.py:173-245)
    c_pc,              \* "request" before the handler runs, "done" after
    c_query,           \* request.args.get('q')
    c_k,               \* request.args.get('k')      (k_final_results)
    c_rrf_k,           \* request.args.get('rrf_k')
    semantic_results,  \* what cosine_search_with_concepts returns to the handler
    graph_results,     \* what graph_semantic_search returns to the handler
    fused_scores,      \* dict doc_id -> score, in insertion order
    combined_results,  \* the sorted list before the final slice
    c_status,          \* HTTP status of the response (0: none yet)
    c_results,         \* "results" of the JSON response
    \* ---- semantic reranker (src/src/embeddings.py:41-179)
    r_pc,
    r_hits,            \* index.search output: <<faiss_idx, distance>> pairs
    r_lemmas,          \* preprocess_query(query)
    r_alpha,           \* alpha, in tenths
    r_top_k,           \* top_k_final
    raw_candidates,
    r_sorted,          \* results after results.sort(...)
    r_return,          \* the returned list
    \* ---- graph builder (src/src/graph_builder.py:84-211)
    b_pc,              \* position in the per-row processing
    rows,              \* rows of the articles table read so far, in scan order
    g_nodes,           \* G.nodes : key -> attribute dict
    g_edges,           \* G.edges : <<u, v>> -> attribute dict
    \* ---- graph builder over raw payloads (src/src/graph_builder.py:84-211)
    p_pc,
    p_rows,            \* rows of the articles table read so far, raw columns
    p_G,               \* the DiGraph: [nodes |-> ..., edges |-> ...]
    \* ---- batch graph step (src/main.py:174-182, src/src/neo4j_exporter.py)
    e_pc,
    e_snapshot,        \* the articles table when the step runs
    nx_graph,          \* the graph handed to export_graph_to_neo4j
    store,             \* committed contents of the Graph Store
    tx,                \* the open transaction's staged creates, or NoTx
    node_map,          \* NetworkX node ids whose Neo4j node was staged
    e_left,            \* nodes / edges the export loops have not visited yet
    e_log,             \* logger.error / logger.warning events of the export
    \* ---- search endpoints and their stores (src/app.py:80-245)
    a_pc,
    a_endpoint,
    a_param,           \* the required parameter ('q' or 'article_header')
    a_env,             \* availability of the persisted artifacts and stores
    a_accessed,        \* the stores the request has touched
    a_sem,             \* how the call of cosine_search_with_concepts ended
    a_gr,              \* how the call of graph_semantic_search ended
    a_status,          \* HTTP status of the response (0: none yet)
    a_results,         \* "results" of the JSON response
    \* ---- graph searcher (src/src/graph_query.py:196-263)
    q_pc,
    q_terms,           \* preprocess_query(query_text)
    q_k,
    q_store,           \* Graph Store contents seen by the Cypher query
    q_details,         \* ids that get_paragraph_details_by_db_id resolves
    q_outcome,         \* "return" or "raise"
    q_results

fusionVars == <<c_pc, c_query, c_k, c_rrf_k, semantic_results, graph_results,
                fused_scores, combined_results, c_status, c_results>>
rerankVars == <<r_pc, r_hits, r_lemmas, r_alpha, r_top_k, raw_candidates,
                r_sorted, r_return>>
buildVars  == <<b_pc, rows, g_nodes, g_edges>>
payloadVars == <<p_pc, p_rows, p_G>>
exportVars == <<e_pc, e_snapshot, nx_graph, store, tx, node_map, e_left, e_log>>
apiVars    == <<a_pc, a_endpoint, a_param, a_env, a_accessed, a_sem, a_gr,
                a_status, a_results>>
searchVars == <<q_pc, q_terms, q_k, q_store, q_details, q_outcome, q_results>>
batchVars  == <<payloadVars, exportVars>>
queryVars  == <<apiVars, searchVars>>
vars       == <<fusionVars, rerankVars, buildVars, batchVars, queryVars>>

(***************************************************************************)
(* Arithmetic helpers                                                      *)
(***************************************************************************)
Min(a, b) == IF a < b THEN a ELSE b
Max(a, b) == IF a > b THEN a ELSE b

\* a Python float value n/d
Rat(n, d) == IF d < 0 THEN <<-n, -d>> ELSE <<n, d>>
RZero == <<0, 1>>
ROne == <<1, 1>>
RAdd(a, b) == <<a[1] * b[2] + b[1] * a[2], a[2] * b[2]>>
RSub(a, b) == <<a[1] * b[2] - b[1] * a[2], a[2] * b[2]>>
RMul(a, b) == <<a[1] * b[1], a[2] * b[2]>>
RLess(a, b) == a[1] * b[2] < b[1] * a[2]
REq(a, b) == a[1] * b[2] = b[1] * a[2]

\* seq[:k] of Python, for any integer k
PyPrefix(s, k) ==
    IF k >= 0 THEN SubSeq(s, 1, Min(k, Len(s)))
    ELSE SubSeq(s, 1, Max(Len(s) + k, 0))

\* list.sort(key=..., reverse=True): a stable sort, descending.  keys is the
\* sequence of sort keys; the result is the permutation of the indices.
RECURSIVE InsertDesc(_, _, _)
InsertDesc(sorted, i, keys) ==
    IF sorted = <<>> THEN <<i>>
    ELSE IF RLess(keys[Head(sorted)], keys[i]) THEN <<i>> \o sorted
    ELSE <<Head(sorted)>> \o InsertDesc(Tail(sorted), i, keys)

RECURSIVE SortPermDescFrom(_, _, _)
SortPermDescFrom(sorted, i, keys) ==
    IF i > Len(keys) THEN sorted
    ELSE SortPermDescFrom(InsertDesc(sorted, i, keys), i + 1, keys)

SortPermDesc(keys) == SortPermDescFrom(<<>>, 1, keys)

SeqRange(s) == {s[i] : i \in 1..Len(s)}
IsInjective(s) == \A i, j \in 1..Len(s) : s[i] = s[j] => i = j
InjectiveSeqs(S, n) ==
    UNION {{s \in [1..m -> S] : IsInjective(s)} : m \in 0..n}

(***************************************************************************)
(* Combined search: Reciprocal Rank Fusion            src/app.py:173-245   *)
(***************************************************************************)
NumDocs == 4
MaxList == 3
RrfKDefault == 60

Docs == 1..NumDocs
Queries == {"", "viteza"}
KValues == {-1, 0, 2}
RrfKValues == {-3, 1, RrfKDefault}

\* a branch returns a list of result dicts with distinct ids; "branch" stands
\* for the rest of the dict (article, paragraph, text and the branch's scores)
BranchResults(tag) ==
    {[i \in 1..Len(s) |-> [id |-> s[i], branch |-> tag]] :
        s \in InjectiveSeqs(Docs, MaxList)}

IdsOf(results) == {results[i].id : i \in 1..Len(results)}

\* dict lookup / update on an insertion-ordered dict kept as a list of pairs
DictHas(d, key) == \E i \in 1..Len(d) : d[i][1] = key
DictGet(d, key) == d[CHOOSE i \in 1..Len(d) : d[i][1] = key][2]
DictPut(d, key, val) ==
    IF DictHas(d, key)
    THEN [i \in 1..Len(d) |-> IF d[i][1] = key THEN <<key, val>> ELSE d[i]]
    ELSE Append(d, <<key, val>>)

\* "=" in place of "+=": the contribution of the later list replaces the sum
RRFStepOverwrite(d, doc_id, rrf_k, rank) ==
    DictPut(d, doc_id, Rat(1, rrf_k + rank + 1))

\* one iteration of the loops at lines 207-211 and 213-217 (rank is 0-based)
RRFStep(d, doc_id, rrf_k, rank) ==
    LET cur == IF DictHas(d, doc_id) THEN DictGet(d, doc_id) ELSE RZero
    IN DictPut(d, doc_id, RAdd(cur, Rat(1, rrf_k + rank + 1)))

RECURSIVE RRFLoop(_, _, _, _)
RRFLoop(d, results, rrf_k, i) ==
    IF i > Len(results) THEN d
    ELSE RRFLoop(RRFStep(d, results[i].id, rrf_k, i - 1), results, rrf_k, i + 1)

FusedScores(sem, gr, rrf_k) == RRFLoop(RRFLoop(<<>>, sem, rrf_k, 1), gr, rrf_k, 1)

\* 1 / (rrf_k + rank + 1) raises ZeroDivisionError
RRFRaises(sem, gr, rrf_k) ==
    \/ \E i \in 1..Len(sem) : rrf_k + (i - 1) + 1 = 0
    \/ \E i \in 1..Len(gr) : rrf_k + (i - 1) + 1 = 0

\* all_unique_docs_by_id.get(doc_id): the semantic record wins
DocDetails(doc_id, sem, gr) ==
    IF doc_id \in IdsOf(sem)
    THEN sem[CHOOSE i \in 1..Len(sem) : sem[i].id = doc_id]
    ELSE gr[CHOOSE i \in 1..Len(gr) : gr[i].id = doc_id]

\* the second test written as an else branch of the first
FoundByFirstMatch(doc_id, sem, gr) ==
    IF doc_id \in IdsOf(sem) THEN <<"semantic">> ELSE <<"graph">>

\* lines 229-233
FoundBy(doc_id, sem, gr) ==
    (IF doc_id \in IdsOf(sem) THEN <<"semantic">> ELSE <<>>)
    \o (IF doc_id \in IdsOf(gr) THEN <<"graph">> ELSE <<>>)

\* one entry per element of the two branch lists instead of one per key
CombinedPerBranchEntry(fused, sem, gr) ==
    [i \in 1..(Len(sem) + Len(gr)) |->
        LET doc_id == (sem \o gr)[i].id
        IN [id |-> doc_id,
            details |-> DocDetails(doc_id, sem, gr).branch,
            rrf_score |-> DictGet(fused, doc_id),
            found_by |-> FoundBy(doc_id, sem, gr)]]

\* lines 224-234: one entry per key of fused_scores, in insertion order
CombinedUnsorted(fused, sem, gr) ==
    [i \in 1..Len(fused) |->
        [id |-> fused[i][1],
         details |-> DocDetails(fused[i][1], sem, gr).branch,
         rrf_score |-> fused[i][2],
         found_by |-> FoundBy(fused[i][1], sem, gr)]]

\* line 236
SortedByRRF(unsorted) ==
    LET perm == SortPermDesc([i \in 1..Len(unsorted) |-> unsorted[i].rrf_score])
    IN [i \in 1..Len(perm) |-> unsorted[perm[i]]]

InitFusion ==
    /\ c_pc = "request"
    /\ c_query \in Queries
    /\ c_k \in KValues
    /\ c_rrf_k \in RrfKValues
    /\ semantic_results = <<>>
    /\ graph_results = <<>>
    /\ fused_scores = <<>>
    /\ combined_results = <<>>
    /\ c_status = 0
    /\ c_results = <<>>

IdleFusion ==
    /\ c_pc = "off"
    /\ c_query = ""
    /\ c_k = 0
    /\ c_rrf_k = 0
    /\ semantic_results = <<>>
    /\ graph_results = <<>>
    /\ fused_scores = <<>>
    /\ combined_results = <<>>
    /\ c_status = 0
    /\ c_results = <<>>

\* combined_search_endpoint, the whole handler; sem and gr are what the two
\* branch calls at lines 188 and 197 return
CombinedSearchEndpoint ==
    /\ c_pc = "request"
    /\ c_pc' = "done"
    /\ UNCHANGED <<c_query, c_k, c_rrf_k>>
    /\ IF c_query = ""
       THEN /\ c_status' = 400
            /\ UNCHANGED <<semantic_results, graph_results, fused_scores,
                           combined_results, c_results>>
       ELSE \E sem \in BranchResults("semantic"), gr \in BranchResults("graph") :
            /\ semantic_results' = sem
            /\ graph_results' = gr
            /\ IF RRFRaises(sem, gr, c_rrf_k)
               THEN /\ c_status' = 500
                    /\ UNCHANGED <<fused_scores, combined_results, c_results>>
               ELSE /\ fused_scores' = FusedScores(sem, gr, c_rrf_k)
                    /\ combined_results' =
                         SortedByRRF(CombinedUnsorted(fused_scores', sem, gr))
                    /\ c_results' = PyPrefix(combined_results', c_k)
                    /\ c_status' = 200
    /\ UNCHANGED <<rerankVars, buildVars, batchVars, queryVars>>

(***************************************************************************)
(* Text helpers: a string is a sequence of one-character strings           *)
(***************************************************************************)
LowerChar(c) == IF c = "A" THEN "a" ELSE IF c = "B" THEN "b" ELSE c
\* str.lower()
Lower(s) == [i \in 1..Len(s) |-> LowerChar(s[i])]

\* q in c  (substring test on str)
Contains(c, q) ==
    \E i \in 1..(Len(c) - Len(q) + 1) : SubSeq(c, i, i + Len(q) - 1) = q

RECURSIVE LStrip(_)
LStrip(s) == IF s # <<>> /\ Head(s) = " " THEN LStrip(Tail(s)) ELSE s
RECURSIVE RStrip(_)
RStrip(s) ==
    IF s # <<>> /\ s[Len(s)] = " " THEN RStrip(SubSeq(s, 1, Len(s) - 1)) ELSE s
\* str.strip()
Strip(s) == RStrip(LStrip(s))

\* [x for x in s if Keep(x)]
RECURSIVE Filter(_, _)
Filter(s, keep) ==
    IF s = <<>> THEN <<>>
    ELSE (IF Head(s) \in keep THEN <<Head(s)>> ELSE <<>>) \o Filter(Tail(s), keep)

(***************************************************************************)
(* Semantic reranker                      src/src/embeddings.py:41-179     *)
(***************************************************************************)
MaxHits == 3

\* faiss_row_ids.json: FAISS row -> document id (row 3 names an id that is
\* not in the articles table)
db_ids_for_faiss_indices == <<1, 2, 3, 9>>
\* load_metadata(db_path): the ids that have metadata
metadata_ids == {1, 2, 3}
\* load_concepts_dict(db_path); document 3 has no concepts
concepts_by_id ==
    [d \in metadata_ids |->
        CASE d = 1 -> << <<"a">>, <<"b">> >>
          [] d = 2 -> << <<"b">>, <<"A", "c">> >>
          [] OTHER -> << >>]

FaissRows == 0..4
\* L2 distances, in tenths
Distances == {0, 1, 3, 12, 20}
LemmaLists == {<<>>, << <<"b">> >>, << <<"a">> >>}
\* alpha, in tenths
Alphas == {0, 3, 10}
TopKValues == {-1, 0, 2}

IsAscending(s) == \A i \in 1..(Len(s) - 1) : s[i][2] <= s[i + 1][2]
\* index.search returns distinct rows by ascending distance
FaissHits ==
    UNION {{h \in [1..m -> FaissRows \X Distances] :
                /\ IsAscending(h)
                /\ \A i, j \in 1..m : h[i][1] = h[j][1] => i = j} : m \in 0..MaxHits}

\* the match of line 129 without c.lower()
MatchedConceptsCaseSensitive(paragraph_concepts, query_lemmas) ==
    Filter(paragraph_concepts,
           {c \in SeqRange(paragraph_concepts) :
               \E i \in 1..Len(query_lemmas) : Contains(c, query_lemmas[i])})

\* lines 129-130
MatchedConcepts(paragraph_concepts, query_lemmas) ==
    Filter(paragraph_concepts,
           {c \in SeqRange(paragraph_concepts) :
               \E i \in 1..Len(query_lemmas) : Contains(Lower(c), query_lemmas[i])})

OverlapScore(paragraph_concepts, query_lemmas) ==
    IF paragraph_concepts # <<>>
    THEN Rat(Len(MatchedConcepts(paragraph_concepts, query_lemmas)),
             Max(Len(paragraph_concepts), 1))
    ELSE RZero

\* lines 114-148: the candidate of one FAISS hit, <<>> when it is skipped
Candidate(hit, query_lemmas) ==
    IF hit[1] = -1 THEN <<>>
    ELSE IF hit[1] + 1 > Len(db_ids_for_faiss_indices) THEN <<>>
    ELSE LET result_id == db_ids_for_faiss_indices[hit[1] + 1]
         IN IF result_id \notin metadata_ids THEN <<>>
            ELSE << [id |-> result_id,
                     distance |-> hit[2],
                     overlap_score |->
                         OverlapScore(concepts_by_id[result_id], query_lemmas),
                     matched_concepts |->
                         MatchedConcepts(concepts_by_id[result_id], query_lemmas)] >>

\* the loop of lines 114-148 with break in place of continue
RECURSIVE RawCandidatesBreak(_, _)
RawCandidatesBreak(hits, query_lemmas) ==
    IF hits = <<>> THEN <<>>
    ELSE IF Candidate(Head(hits), query_lemmas) = <<>> THEN <<>>
    ELSE Candidate(Head(hits), query_lemmas)
             \o RawCandidatesBreak(Tail(hits), query_lemmas)

RECURSIVE RawCandidates(_, _)
RawCandidates(hits, query_lemmas) ==
    IF hits = <<>> THEN <<>>
    ELSE Candidate(Head(hits), query_lemmas) \o RawCandidates(Tail(hits), query_lemmas)

\* lines 110-111, 140-142; min is <<>> while it is float('inf')
RECURSIVE MinDistanceForNorm(_, _)
MinDistanceForNorm(cands, acc) ==
    IF cands = <<>> THEN acc
    ELSE MinDistanceForNorm(Tail(cands),
            IF Head(cands).distance = -1 THEN acc
            ELSE IF acc = <<>> THEN <<Head(cands).distance>>
            ELSE <<Min(acc[1], Head(cands).distance)>>)

RECURSIVE MaxDistanceForNorm(_, _)
MaxDistanceForNorm(cands, acc) ==
    IF cands = <<>> THEN acc
    ELSE MaxDistanceForNorm(Tail(cands),
            IF Head(cands).distance = -1 THEN acc
            ELSE Max(acc, Head(cands).distance))

\* min-max scaling without the "1.0 -"
SemanticScoreNotInverted(cand, cands) ==
    LET mn == MinDistanceForNorm(cands, <<>>)
        mx == MaxDistanceForNorm(cands, 0)
    IN IF mn # <<>> /\ mx > mn[1]
       THEN Rat(cand.distance - mn[1], mx - mn[1])
       ELSE RZero

\* lines 151-160
SemanticScore(cand, cands) ==
    LET mn == MinDistanceForNorm(cands, <<>>)
        mx == MaxDistanceForNorm(cands, 0)
    IN IF mn # <<>> /\ mx > mn[1]
       THEN RSub(ROne, Rat(cand.distance - mn[1], mx - mn[1]))
       ELSE IF Len(cands) = 1 /\ cand.distance # -1
       THEN (IF RLess(Rat(cand.distance, 10), Rat(10, 10)) THEN ROne
             ELSE IF RLess(Rat(15, 10), Rat(cand.distance, 10)) THEN Rat(1, 10)
             ELSE Rat(5, 10))
       ELSE RZero

\* line 163
FinalScore(alpha, semantic, overlap) ==
    RAdd(RMul(Rat(alpha, 10), semantic), RMul(RSub(ROne, Rat(alpha, 10)), overlap))

\* lines 150-175
Results(cands, alpha) ==
    [i \in 1..Len(cands) |->
        LET sem == SemanticScore(cands[i], cands)
        IN [id |-> cands[i].id,
            semantic_score |-> sem,
            raw_distance |-> cands[i].distance,
            overlap_score |-> cands[i].overlap_score,
            final_score |-> FinalScore(alpha, sem, cands[i].overlap_score),
            matched_concepts |-> cands[i].matched_concepts]]

\* sorted(results, key=...)[::-1]: ascending stable sort, then reversed
SortedAscendingReversed(results) ==
    LET perm == SortPermDesc([i \in 1..Len(results) |->
                    Rat(-results[i].final_score[1], results[i].final_score[2])])
    IN [i \in 1..Len(perm) |-> results[perm[Len(perm) + 1 - i]]]

\* line 177
SortedByFinalScore(results) ==
    LET perm == SortPermDesc([i \in 1..Len(results) |-> results[i].final_score])
    IN [i \in 1..Len(perm) |-> results[perm[i]]]

InitRerank ==
    /\ r_pc = "call"
    /\ r_hits = <<>>
    /\ r_lemmas = <<>>
    /\ r_alpha \in Alphas
    /\ r_top_k \in TopKValues
    /\ raw_candidates = <<>>
    /\ r_sorted = <<>>
    /\ r_return = <<>>

IdleRerank ==
    /\ r_pc = "off"
    /\ r_hits = <<>>
    /\ r_lemmas = <<>>
    /\ r_alpha = 0
    /\ r_top_k = 0
    /\ raw_candidates = <<>>
    /\ r_sorted = <<>>
    /\ r_return = <<>>

\* cosine_search_with_concepts, with model, index and database present; hits
\* is what index.search returns (line 86), lemmas what preprocess_query
\* returns (line 90)
CosineSearchWithConcepts ==
    /\ r_pc = "call"
    /\ r_pc' = "done"
    /\ UNCHANGED <<r_alpha, r_top_k>>
    /\ \E hits \in FaissHits, lemmas \in LemmaLists :
        /\ r_hits' = hits
        /\ r_lemmas' = lemmas
        /\ raw_candidates' = RawCandidates(hits, lemmas)
        /\ r_sorted' = SortedByFinalScore(Results(raw_candidates', r_alpha))
        /\ r_return' = PyPrefix(r_sorted', r_top_k)
    /\ UNCHANGED <<fusionVars, buildVars, batchVars, queryVars>>

(***************************************************************************)
(* Graph builder                        src/src/graph_builder.py:1-211     *)
(***************************************************************************)
MaxDocs == 2
MaxItems == 3

REL_TYPE_HAS_CONCEPT == "HAS_CONCEPT"
REL_TYPE_MENTIONS_ENTITY == "MENTIONS_ENTITY"
NODE_LABEL_PARAGRAPH == "Paragraph"
NODE_LABEL_CONCEPT == "Concept"
NODE_LABEL_ENTITY == "Entity"
NODE_LABEL_TERM == "Term"
\* the value of G.nodes[n].get('label') when the attribute is missing
NoLabel == "None"

\* What the articles table holds.  concepts are written by merge_concepts
\* (lower-cased, stripped, unique per row); entity texts are raw ent.text;
\* triple subjects and objects are raw token texts, the subject of a modal
\* construction is the empty string.
ConceptPhrases == {<<"a">>, <<"b">>}
EntityTexts == {<<"a">>, <<"A">>, <<" ", "a">>}
EntityTypes == {"LOC"}
TripleSubjects == {<<"a">>, <<"A">>, <<>>}
TriplePredicates == {<<"poate">>, <<"are">>}
TripleObjects == {<<"b">>}

Digits == <<"1", "2", "3", "4", "5", "6", "7", "8", "9">>
\* f"Paragraph_{paragraph_db_id}"
ParagraphKey(id) == <<"Paragraph_", Digits[id]>>

\* str(row.get("text", ""))[:200] + "..."
TextSnippet(text) == SubSeq(text, 1, Min(200, Len(text))) \o <<".", ".", ".">>

modal_keywords ==
    {<<"poate">>, <<"trebuie">>, <<"este", " ", "permis">>,
     <<"nu", " ", "este", " ", "permis">>, <<"obligat">>, <<"interzis">>,
     <<"permis">>, <<"obligatoriu">>}
\* the first entry is the source's literal as Python reads it: the three
\* characters U+00C3 U+00AE "n", written here "A~", "(R)", "n"
prepositions_as_predicates ==
    {<<"A~", "(R)", "n">>, <<"la">>, <<"cu">>, <<"pentru">>, <<"prin">>, <<"de">>, <<"pe">>,
     <<"asupra">>, <<"sub">>}

\* infer_relation_category
infer_relation_category(predicate) ==
    LET pred_lower == Strip(Lower(predicate))
    IN IF pred_lower = <<>> THEN "unknown_category"
       ELSE IF \E kw \in modal_keywords : Contains(pred_lower, kw) THEN "modal"
       ELSE IF pred_lower \in prepositions_as_predicates THEN "prepositional"
       ELSE "svo"

\* dict.get(key, default)
AttrGet(attrs, key, default) == IF key \in DOMAIN attrs THEN attrs[key] ELSE default

\* the label assigned without the precedence test
UpdateLabelAlways(current_label, desired_label) == TRUE

\* lines 61-70: whether the existing node's label is replaced
UpdateLabel(current_label, desired_label) ==
    IF desired_label = NODE_LABEL_ENTITY
    THEN current_label \in {NODE_LABEL_TERM, NODE_LABEL_CONCEPT, NoLabel}
    ELSE IF desired_label = NODE_LABEL_CONCEPT
    THEN current_label \in {NODE_LABEL_TERM, NoLabel}
    ELSE IF desired_label = NODE_LABEL_TERM
    THEN current_label = NoLabel
    ELSE FALSE

\* _add_or_update_node(G, node_id_str, desired_label, properties)
AddOrUpdateNode(nodes, node_id_str, desired_label, properties) ==
    LET props == IF "name" \in DOMAIN properties THEN properties
                 ELSE properties @@ ("name" :> node_id_str)
    IN IF node_id_str \notin DOMAIN nodes
       THEN nodes @@ (node_id_str :> (("label" :> desired_label) @@ props))
       ELSE LET old == nodes[node_id_str]
                current_label == AttrGet(old, "label", NoLabel)
                relabelled ==
                    IF UpdateLabel(current_label, desired_label)
                    THEN ("label" :> desired_label) @@ old
                    ELSE old
            IN [nodes EXCEPT ![node_id_str] = props @@ relabelled]

\* nx.DiGraph.add_edge(u, v, **attr): one edge per ordered pair; adding an
\* existing edge updates its attribute dict
AddEdge(edges, u, v, attrs) ==
    IF <<u, v>> \in DOMAIN edges
    THEN [edges EXCEPT ![<<u, v>>] = attrs @@ @]
    ELSE edges @@ (<<u, v>> :> attrs)

EmptyMap == [x \in {} |-> x]

TotalItems(rs) ==
    LET n[i \in 0..Len(rs)] ==
            IF i = 0 THEN 0
            ELSE n[i - 1] + Len(rs[i].concepts) + Len(rs[i].entities)
                          + Len(rs[i].svo_triples)
    IN n[Len(rs)]

InitBuild ==
    /\ b_pc = "rows"
    /\ rows = <<>>
    /\ g_nodes = EmptyMap
    /\ g_edges = EmptyMap

IdleBuild ==
    /\ b_pc = "off"
    /\ rows = <<>>
    /\ g_nodes = EmptyMap
    /\ g_edges = EmptyMap

\* lines 103-119: the next row of the table; its Paragraph node
BuildParagraph ==
    /\ b_pc \in {"rows", "concepts", "entities", "triples"}
    /\ Len(rows) < MaxDocs
    /\ LET id == Len(rows) + 1
           row == [id |-> id, article |-> "art", paragraph |-> "par",
                   text |-> <<"t">>, concepts |-> <<>>, entities |-> <<>>,
                   svo_triples |-> <<>>]
       IN /\ rows' = Append(rows, row)
          /\ g_nodes' = AddOrUpdateNode(g_nodes, ParagraphKey(id), NODE_LABEL_PARAGRAPH,
                            [db_id |-> id,
                             article_header |-> row.article,
                             paragraph_identifier |-> row.paragraph,
                             text_snippet |-> TextSnippet(row.text)])
    /\ b_pc' = "concepts"
    /\ UNCHANGED g_edges
    /\ UNCHANGED <<fusionVars, rerankVars, batchVars, queryVars>>

\* lines 127-131: the next element of the row's concepts list
BuildConcept ==
    /\ b_pc = "concepts"
    /\ TotalItems(rows) < MaxItems
    /\ \E concept_text \in ConceptPhrases :
        LET n == Len(rows)
            paragraph_node_nx_id == ParagraphKey(rows[n].id)
            concept_clean == Strip(concept_text)
        IN /\ concept_text \notin SeqRange(rows[n].concepts)
           /\ rows' = [rows EXCEPT ![n].concepts = Append(@, concept_text)]
           /\ IF Strip(concept_text) # <<>>
              THEN /\ g_nodes' = AddOrUpdateNode(g_nodes, concept_clean,
                                                 NODE_LABEL_CONCEPT, EmptyMap)
                   /\ g_edges' = AddEdge(g_edges, paragraph_node_nx_id, concept_clean,
                                         [type |-> REL_TYPE_HAS_CONCEPT])
              ELSE UNCHANGED <<g_nodes, g_edges>>
    /\ b_pc' = "concepts"
    /\ UNCHANGED <<fusionVars, rerankVars, batchVars, queryVars>>

\* lines 144-152: the next element of the row's entities list
BuildEntity ==
    /\ b_pc \in {"concepts", "entities"}
    /\ TotalItems(rows) < MaxItems
    /\ \E entity_text \in EntityTexts, entity_ner_type \in EntityTypes :
        LET n == Len(rows)
            paragraph_node_nx_id == ParagraphKey(rows[n].id)
            entity_clean == Strip(entity_text)
        IN /\ rows' = [rows EXCEPT ![n].entities =
                          Append(@, [text |-> entity_text, type |-> entity_ner_type])]
           /\ IF entity_text # <<>> /\ Strip(entity_text) # <<>>
              THEN /\ g_nodes' = AddOrUpdateNode(g_nodes, entity_clean,
                                     NODE_LABEL_ENTITY, [entity_type |-> entity_ner_type])
                   /\ g_edges' = AddEdge(g_edges, paragraph_node_nx_id, entity_clean,
                                         [type |-> REL_TYPE_MENTIONS_ENTITY])
              ELSE UNCHANGED <<g_nodes, g_edges>>
    /\ b_pc' = "entities"
    /\ UNCHANGED <<fusionVars, rerankVars, batchVars, queryVars>>

\* lines 168-190: the next element of the row's svo_triples list
BuildTriple ==
    /\ b_pc \in {"concepts", "entities", "triples"}
    /\ TotalItems(rows) < MaxItems
    /\ \E s \in TripleSubjects, p \in TriplePredicates, o \in TripleObjects :
        LET n == Len(rows)
            subj_clean == Strip(s)
            pred_clean == Strip(p)
            obj_clean == Strip(o)
        IN /\ rows' = [rows EXCEPT ![n].svo_triples = Append(@, <<s, p, o>>)]
           /\ IF \A x \in {s, p, o} : Strip(x) # <<>>
              THEN /\ g_nodes' = AddOrUpdateNode(
                                     AddOrUpdateNode(g_nodes, subj_clean,
                                                     NODE_LABEL_TERM, EmptyMap),
                                     obj_clean, NODE_LABEL_TERM, EmptyMap)
                   /\ g_edges' = AddEdge(g_edges, subj_clean, obj_clean,
                                     [predicate |-> pred_clean,
                                      category |-> infer_relation_category(pred_clean),
                                      source_db_id |-> rows[n].id])
              ELSE UNCHANGED <<g_nodes, g_edges>>
    /\ b_pc' = "triples"
    /\ UNCHANGED <<fusionVars, rerankVars, batchVars, queryVars>>

\* line 211: the table is exhausted, G is returned
BuildReturn ==
    /\ b_pc \in {"rows", "concepts", "entities", "triples"}
    /\ b_pc' = "done"
    /\ UNCHANGED <<rows, g_nodes, g_edges>>
    /\ UNCHANGED <<fusionVars, rerankVars, batchVars, queryVars>>

(***************************************************************************)
(* Graph builder over the stored payloads  src/src/graph_builder.py:84-211 *)
(*                                                                         *)
(* The concepts, entities and svo_triples columns hold JSON text.  A       *)
(* column value is modelled by what json.loads makes of it:                *)
(*   kind "null"    : NULL in the table (row.get returns None)             *)
(*   kind "empty"   : the empty string                                     *)
(*   kind "invalid" : text that is not JSON (json.loads raises)            *)
(*   kind "object"  : JSON that is not a list                              *)
(*   kind "list"    : a JSON list, its elements in items                   *)
(* A JSON value that should be a string is [str |-> TRUE, text |-> chars]  *)
(* when it is one and [str |-> FALSE, ...] when it is a number.            *)
(***************************************************************************)
JStr(t) == [str |-> TRUE, text |-> t]
JNum == [str |-> FALSE, text |-> <<>>]
JPayload(k) == [kind |-> k, items |-> <<>>]
JList(items) == [kind |-> "list", items |-> items]
JEntity(t, ty) == [dict |-> TRUE, text |-> t, type |-> ty]
JTriple(s, p, o) == [list |-> TRUE, elems |-> <<s, p, o>>]

ConceptPayloads ==
    {JPayload("null"), JPayload("invalid"), JPayload("object"),
     JList(<<JStr(<<"a">>), JNum, JStr(<<"b">>)>>)}
\* entity texts are raw ent.text of the document: one document mentions the
\* text "Paragraph_2"
EntityPayloads ==
    {JPayload("invalid"), JPayload("empty"),
     JList(<<JEntity(JStr(<<"A">>), "LOC")>>),
     JList(<<JEntity(JStr(ParagraphKey(2)), "LOC")>>)}
\* a JSON value that is not a list, and a list of two elements
JNotAList == [list |-> FALSE, elems |-> <<>>]
JPair(s, p) == [list |-> TRUE, elems |-> <<s, p>>]
\* the third payload holds a modal triple with the empty subject, a non-list,
\* a two-element list, a triple with a number, a triple with a blank
\* predicate, and a well-formed triple after them
TriplePayloads ==
    {JPayload("invalid"),
     JList(<<JTriple(JStr(<<"a">>), JStr(<<"are">>), JStr(<<"b">>))>>),
     JList(<<JTriple(JStr(<<>>), JStr(<<"poate">>), JStr(<<"b">>)),
             JNotAList,
             JPair(JStr(<<"a">>), JStr(<<"are">>)),
             JTriple(JNum, JStr(<<"are">>), JStr(<<"b">>)),
             JTriple(JStr(<<"a">>), JStr(<<" ">>), JStr(<<"b">>)),
             JTriple(JStr(<<"c">>), JStr(<<"la", " ">>), JStr(<<"b">>))>>)}

EmptyGraph == [nodes |-> EmptyMap, edges |-> EmptyMap]

\* "x_json and isinstance(x_json, str)"  (lines 124, 141, 165)
HasText(payload) == payload.kind \notin {"null", "empty"}

\* json.loads(x_json): raises json.JSONDecodeError, or returns the value
JsonLoads(payload) ==
    [raises |-> payload.kind = "invalid",
     is_list |-> payload.kind = "list",
     value |-> payload.items]

\* lines 128-131
ProcessConceptItem(G, paragraph_node_nx_id, concept_text) ==
    IF concept_text.str /\ Strip(concept_text.text) # <<>>
    THEN LET concept_clean == Strip(concept_text.text)
         IN [nodes |-> AddOrUpdateNode(G.nodes, concept_clean, NODE_LABEL_CONCEPT,
                                       EmptyMap),
             edges |-> AddEdge(G.edges, paragraph_node_nx_id, concept_clean,
                               [type |-> REL_TYPE_HAS_CONCEPT])]
    ELSE G

\* lines 145-152
ProcessEntityItem(G, paragraph_node_nx_id, entity_data) ==
    IF /\ entity_data.dict
       /\ entity_data.text.str
       /\ entity_data.text.text # <<>>
       /\ Strip(entity_data.text.text) # <<>>
    THEN LET entity_clean == Strip(entity_data.text.text)
         IN [nodes |-> AddOrUpdateNode(G.nodes, entity_clean, NODE_LABEL_ENTITY,
                                       [entity_type |-> entity_data.type]),
             edges |-> AddEdge(G.edges, paragraph_node_nx_id, entity_clean,
                               [type |-> REL_TYPE_MENTIONS_ENTITY])]
    ELSE G

\* the triple test without "and x.strip()"
ProcessTripleItemBlanksAccepted(G, paragraph_db_id, triple) ==
    IF ~triple.list \/ Len(triple.elems) # 3 THEN G
    ELSE IF ~(\A i \in 1..3 : triple.elems[i].str)
    THEN G
    ELSE LET subj_clean == Strip(triple.elems[1].text)
             pred_clean == Strip(triple.elems[2].text)
             obj_clean == Strip(triple.elems[3].text)
         IN [nodes |-> AddOrUpdateNode(
                           AddOrUpdateNode(G.nodes, subj_clean, NODE_LABEL_TERM,
                                           EmptyMap),
                           obj_clean, NODE_LABEL_TERM, EmptyMap),
             edges |-> AddEdge(G.edges, subj_clean, obj_clean,
                               [predicate |-> pred_clean,
                                category |-> infer_relation_category(pred_clean),
                                source_db_id |-> paragraph_db_id])]

\* lines 169-190
ProcessTripleItem(G, paragraph_db_id, triple) ==
    IF ~triple.list \/ Len(triple.elems) # 3 THEN G
    ELSE IF ~(\A i \in 1..3 : triple.elems[i].str /\ Strip(triple.elems[i].text) # <<>>)
    THEN G
    ELSE LET subj_clean == Strip(triple.elems[1].text)
             pred_clean == Strip(triple.elems[2].text)
             obj_clean == Strip(triple.elems[3].text)
         IN [nodes |-> AddOrUpdateNode(
                           AddOrUpdateNode(G.nodes, subj_clean, NODE_LABEL_TERM,
                                           EmptyMap),
                           obj_clean, NODE_LABEL_TERM, EmptyMap),
             edges |-> AddEdge(G.edges, subj_clean, obj_clean,
                               [predicate |-> pred_clean,
                                category |-> infer_relation_category(pred_clean),
                                source_db_id |-> paragraph_db_id])]

\* the for loops at lines 127, 144 and 168
RECURSIVE ProcessConcepts(_, _, _)
ProcessConcepts(G, pkey, items) ==
    IF items = <<>> THEN G
    ELSE ProcessConcepts(ProcessConceptItem(G, pkey, Head(items)), pkey, Tail(items))

RECURSIVE ProcessEntities(_, _, _)
ProcessEntities(G, pkey, items) ==
    IF items = <<>> THEN G
    ELSE ProcessEntities(ProcessEntityItem(G, pkey, Head(items)), pkey, Tail(items))

RECURSIVE ProcessTriples(_, _, _)
ProcessTriples(G, db_id, items) ==
    IF items = <<>> THEN G
    ELSE ProcessTriples(ProcessTripleItem(G, db_id, Head(items)), db_id, Tail(items))

\* whether the field's try block (lines 122, 139, 163) is left by an exception
FieldRaises(payload) == HasText(payload) /\ JsonLoads(payload).raises

\* whether the field's for loop is entered
FieldIsList(payload) ==
    HasText(payload) /\ ~JsonLoads(payload).raises /\ JsonLoads(payload).is_list

\* lines 103-119
ProcessParagraph(G, row) ==
    [nodes |-> AddOrUpdateNode(G.nodes, ParagraphKey(row.id), NODE_LABEL_PARAGRAPH,
                   [db_id |-> row.id,
                    article_header |-> row.article,
                    paragraph_identifier |-> row.paragraph,
                    text_snippet |-> TextSnippet(row.text)]),
     edges |-> G.edges]

\* one try block around the three fields: the first payload that fails to
\* decode ends the processing of the row
ProcessRowOneTry(G, row) ==
    LET g0 == ProcessParagraph(G, row)
        g1 == IF FieldIsList(row.concepts)
              THEN ProcessConcepts(g0, ParagraphKey(row.id), row.concepts.items)
              ELSE g0
        g2 == IF FieldIsList(row.entities)
              THEN ProcessEntities(g1, ParagraphKey(row.id), row.entities.items)
              ELSE g1
        g3 == IF FieldIsList(row.svo_triples)
              THEN ProcessTriples(g2, row.id, row.svo_triples.items)
              ELSE g2
    IN IF FieldRaises(row.concepts) THEN g0
       ELSE IF FieldRaises(row.entities) THEN g1
       ELSE IF FieldRaises(row.svo_triples) THEN g2
       ELSE g3

\* the body of the loop over the rows, lines 103-195: each field has its own
\* try block, so a field that raises leaves the graph as it was and the next
\* field is processed
ProcessRow(G, row) ==
    LET g0 == ProcessParagraph(G, row)
        g1 == IF FieldIsList(row.concepts)
              THEN ProcessConcepts(g0, ParagraphKey(row.id), row.concepts.items)
              ELSE g0
        g2 == IF FieldIsList(row.entities)
              THEN ProcessEntities(g1, ParagraphKey(row.id), row.entities.items)
              ELSE g1
        g3 == IF FieldIsList(row.svo_triples)
              THEN ProcessTriples(g2, row.id, row.svo_triples.items)
              ELSE g2
    IN g3

\* build_legal_graph over a whole table
RECURSIVE BuildFrom(_, _)
BuildFrom(G, table) ==
    IF table = <<>> THEN G ELSE BuildFrom(ProcessRow(G, Head(table)), Tail(table))

BuildLegalGraph(table) == BuildFrom(EmptyGraph, table)

\* a row of the articles table with id n
RawRow(n, concepts, entities, svo_triples) ==
    [id |-> n, article |-> "art", paragraph |-> "par", text |-> <<"t">>,
     concepts |-> concepts, entities |-> entities, svo_triples |-> svo_triples]

InitPayload ==
    /\ p_pc = "rows"
    /\ p_rows = <<>>
    /\ p_G = EmptyGraph

IdlePayload ==
    /\ p_pc = "off"
    /\ p_rows = <<>>
    /\ p_G = EmptyGraph

\* lines 103-195: the next row of the table is read and processed
PayloadBuildRow ==
    /\ p_pc = "rows"
    /\ Len(p_rows) < MaxDocs
    /\ \E c \in ConceptPayloads, e \in EntityPayloads, t \in TriplePayloads :
        LET row == RawRow(Len(p_rows) + 1, c, e, t)
        IN /\ p_rows' = Append(p_rows, row)
           /\ p_G' = ProcessRow(p_G, row)
    /\ UNCHANGED p_pc
    /\ UNCHANGED <<fusionVars, rerankVars, buildVars, exportVars, queryVars>>

\* line 211
PayloadBuildReturn ==
    /\ p_pc = "rows"
    /\ p_pc' = "done"
    /\ UNCHANGED <<p_rows, p_G>>
    /\ UNCHANGED <<fusionVars, rerankVars, buildVars, exportVars, queryVars>>

(***************************************************************************)
(* Batch graph step: build, then export to the Graph Store                 *)
(*                       src/main.py:174-182, src/src/neo4j_exporter.py    *)
(*                                                                         *)
(* The Graph Store's committed contents are a set of nodes and a set of    *)
(* relationships.  graph_db.run(...) is an auto-commit query: its effect   *)
(* is committed when the call returns.  tx.create(...) stages a create in  *)
(* the open transaction; tx.commit() makes the staged creates the store's  *)
(* contents; tx.rollback() drops them.                                     *)
(***************************************************************************)
EmptyStore == [nodes |-> {}, edges |-> {}]
NoTx == [open |-> FALSE, nodes |-> {}, edges |-> {}]

\* what an earlier load left in the Graph Store
PreviousStore ==
    [nodes |-> {[label |-> NODE_LABEL_CONCEPT, properties |-> ("name" :> <<"z">>)]},
     edges |-> {}]

\* the articles tables the step is run on
ExportSnapshots ==
    {<<>>,
     <<RawRow(1, JPayload("null"), JPayload("empty"), JPayload("null"))>>,
     <<RawRow(1, JList(<<JStr(<<"a">>)>>), JPayload("empty"), JPayload("null"))>>,
     <<RawRow(1, JList(<<JStr(<<"a">>)>>),
              JList(<<JEntity(JStr(<<"A">>), "LOC")>>), JPayload("null"))>>,
     <<RawRow(1, JPayload("null"), JPayload("empty"),
              JList(<<JTriple(JStr(<<"a">>), JStr(<<"nu", " ", "are">>),
                              JStr(<<"b">>))>>))>>}

\* dict without one key
Without(d, key) == [k \in (DOMAIN d) \ {key} |-> d[k]]

\* lines 49-63: Node(node_label_from_nx, **properties)
NeoNode(nx_node_id, nx_node_data) ==
    LET node_label_from_nx == AttrGet(nx_node_data, "label", "DefaultNode")
        properties == Without(nx_node_data, "label")
    IN [label |-> node_label_from_nx,
        properties |->
            IF "name" \notin DOMAIN properties
               /\ node_label_from_nx # NODE_LABEL_PARAGRAPH
            THEN properties @@ ("id_str" :> nx_node_id)
            ELSE properties]

\* str.upper() and the three replace() calls of line 102, per token
SanitizeToken(t) ==
    CASE t = "are" -> "ARE"
      [] t = "nu" -> "NU"
      [] t = "poate" -> "POATE"
      [] t = " " -> "_"
      [] t = "-" -> "_"
      [] t = "." -> "_"
      [] OTHER -> t

\* lines 102-104
SanitizeRelType(rel_type_base_str) ==
    IF rel_type_base_str = <<>> THEN <<"INTERACTS_WITH">>
    ELSE [i \in 1..Len(rel_type_base_str) |-> SanitizeToken(rel_type_base_str[i])]

\* lines 84-109: Relationship(source, rel_type_neo4j, target, **rel_props)
NeoRel(source_nx_id, target_nx_id, nx_edge_data) ==
    LET base == IF "predicate" \in DOMAIN nx_edge_data
                THEN [t |-> nx_edge_data["predicate"],
                      props |-> Without(nx_edge_data, "predicate")]
                ELSE IF "type" \in DOMAIN nx_edge_data
                THEN [t |-> <<nx_edge_data["type"]>>,
                      props |-> Without(nx_edge_data, "type")]
                ELSE [t |-> <<"RELATED_TO">>, props |-> nx_edge_data]
    IN [source |-> source_nx_id,
        type |-> SanitizeRelType(base.t),
        target |-> target_nx_id,
        properties |-> base.props]

NothingLeft == [nodes |-> {}, edges |-> {}]

InitExport ==
    /\ e_pc = "build"
    /\ e_snapshot = <<>>
    /\ nx_graph = EmptyGraph
    /\ store = PreviousStore
    /\ tx = NoTx
    /\ node_map = {}
    /\ e_left = NothingLeft
    /\ e_log = {}

IdleExport ==
    /\ e_pc = "off"
    /\ e_snapshot = <<>>
    /\ nx_graph = EmptyGraph
    /\ store = EmptyStore
    /\ tx = NoTx
    /\ node_map = {}
    /\ e_left = NothingLeft
    /\ e_log = {}

\* main.py line 177: G = build_legal_graph(db_file_path)
GraphStepBuild ==
    /\ e_pc = "build"
    /\ \E table \in ExportSnapshots :
        /\ e_snapshot' = table
        /\ nx_graph' = BuildLegalGraph(table)
    /\ e_pc' = "export"
    /\ UNCHANGED <<store, tx, node_map, e_left, e_log>>
    /\ UNCHANGED <<fusionVars, rerankVars, buildVars, payloadVars, queryVars>>

\* neo4j_exporter.py lines 20-32: the empty-graph test and the connection
ExportConnect ==
    /\ e_pc = "export"
    /\ IF DOMAIN nx_graph.nodes = {}
       THEN /\ e_log' = e_log \cup {"empty_graph"}
            /\ e_pc' = "done"
       ELSE \E connected \in BOOLEAN :
            IF connected
            THEN /\ e_pc' = "clear"
                 /\ UNCHANGED e_log
            ELSE /\ e_log' = e_log \cup {"connect_failed"}
                 /\ e_pc' = "done"
    /\ UNCHANGED <<e_snapshot, nx_graph, store, tx, node_map, e_left>>
    /\ UNCHANGED <<fusionVars, rerankVars, buildVars, payloadVars, queryVars>>

\* line 37: graph_db.run("MATCH (n) DETACH DELETE n"), before any transaction
ExportClear ==
    /\ e_pc = "clear"
    /\ \E ok \in BOOLEAN :
        IF ok
        THEN /\ store' = EmptyStore
             /\ e_pc' = "begin"
             /\ UNCHANGED e_log
        ELSE \* lines 131-133: tx is None, nothing to roll back
             /\ e_log' = e_log \cup {"clear_failed"}
             /\ e_pc' = "done"
             /\ UNCHANGED store
    /\ UNCHANGED <<e_snapshot, nx_graph, tx, node_map, e_left>>
    /\ UNCHANGED <<fusionVars, rerankVars, buildVars, payloadVars, queryVars>>

\* line 40: tx = graph_db.begin()
ExportBegin ==
    /\ e_pc = "begin"
    /\ \E ok \in BOOLEAN :
        IF ok
        THEN /\ tx' = [open |-> TRUE, nodes |-> {}, edges |-> {}]
             /\ node_map' = {}
             /\ e_left' = [nodes |-> DOMAIN nx_graph.nodes,
                           edges |-> DOMAIN nx_graph.edges]
             /\ e_pc' = "loops"
             /\ UNCHANGED e_log
        ELSE /\ e_log' = e_log \cup {"begin_failed"}
             /\ e_pc' = "done"
             /\ UNCHANGED <<tx, node_map, e_left>>
    /\ UNCHANGED <<e_snapshot, nx_graph, store>>
    /\ UNCHANGED <<fusionVars, rerankVars, buildVars, payloadVars, queryVars>>

\* lines 48-69: one iteration of the node loop; a create that raises is
\* logged and the loop goes on
ExportNode ==
    /\ e_pc = "loops"
    /\ e_left.nodes # {}
    /\ LET nx_node_id == CHOOSE n \in e_left.nodes : TRUE
       IN /\ e_left' = [e_left EXCEPT !.nodes = @ \ {nx_node_id}]
          /\ \E ok \in BOOLEAN :
              IF ok
              THEN /\ tx' = [tx EXCEPT !.nodes =
                                @ \cup {NeoNode(nx_node_id, nx_graph.nodes[nx_node_id])}]
                   /\ node_map' = node_map \cup {nx_node_id}
                   /\ UNCHANGED e_log
              ELSE /\ e_log' = e_log \cup {"node_failed"}
                   /\ UNCHANGED <<tx, node_map>>
    /\ UNCHANGED <<e_pc, e_snapshot, nx_graph, store>>
    /\ UNCHANGED <<fusionVars, rerankVars, buildVars, payloadVars, queryVars>>

\* lines 75-115: one iteration of the edge loop
ExportEdge ==
    /\ e_pc = "loops"
    /\ e_left.nodes = {}
    /\ e_left.edges # {}
    /\ LET edge == CHOOSE e \in e_left.edges : TRUE
       IN /\ e_left' = [e_left EXCEPT !.edges = @ \ {edge}]
          /\ IF edge[1] \notin node_map \/ edge[2] \notin node_map
             THEN /\ e_log' = e_log \cup {"edge_skipped"}
                  /\ UNCHANGED tx
             ELSE \E ok \in BOOLEAN :
                  IF ok
                  THEN /\ tx' = [tx EXCEPT !.edges =
                                    @ \cup {NeoRel(edge[1], edge[2], nx_graph.edges[edge])}]
                       /\ UNCHANGED e_log
                  ELSE /\ e_log' = e_log \cup {"edge_failed"}
                       /\ UNCHANGED tx
    /\ UNCHANGED <<e_pc, e_snapshot, nx_graph, store, node_map>>
    /\ UNCHANGED <<fusionVars, rerankVars, buildVars, payloadVars, queryVars>>

\* lines 119-138: tx.commit(), and tx.rollback() when it raises
ExportCommit ==
    /\ e_pc = "loops"
    /\ e_left = NothingLeft
    /\ \E ok \in BOOLEAN :
        IF ok
        THEN /\ store' = [nodes |-> store.nodes \cup tx.nodes,
                          edges |-> store.edges \cup tx.edges]
             /\ e_log' = e_log \cup {"committed"}
        ELSE /\ e_log' = e_log \cup {"commit_failed"}
             /\ UNCHANGED store
    /\ tx' = NoTx
    /\ e_pc' = "done"
    /\ UNCHANGED <<e_snapshot, nx_graph, node_map, e_left>>
    /\ UNCHANGED <<fusionVars, rerankVars, buildVars, payloadVars, queryVars>>

(***************************************************************************)
(* Graph searcher                        src/src/graph_query.py:196-263    *)
(*                                                                         *)
(* The Graph Store seen by the Cypher query of lines 222-232:              *)
(*   has_concept : the (:Paragraph)-[:HAS_CONCEPT]->(c) pairs, a paragraph *)
(*                 named by its db_id (every Paragraph node of a loaded    *)
(*                 store carries one, graph_builder.py:111)                *)
(*   text_score  : what db.index.fulltext.queryNodes yields for the query  *)
(*                 string, concept node -> score (in hundredths)           *)
(***************************************************************************)
MaxParagraphs == 3

ParagraphIds == 1..MaxParagraphs
ConceptNodes == {"a", "b"}
TextScores == {1, 2}
SearchKValues == {-1, 0, 1, 2}
QueryTermLists == {<<>>, <<"viteza">>}

GraphStores ==
    {[reachable |-> r, has_concept |-> h, text_score |-> t] :
        r \in BOOLEAN,
        h \in SUBSET (ParagraphIds \X ConceptNodes),
        t \in UNION {[m -> TextScores] : m \in SUBSET ConceptNodes}}

\* the ids of the articles table at query time
DetailSets == {ParagraphIds, ParagraphIds \ {1}}

\* CALL ... YIELD node AS c, score AS text_score
\* MATCH (p:Paragraph)-[:HAS_CONCEPT]->(c): one row per matched pair
MatchRows(gs) == {row \in gs.has_concept : row[2] \in DOMAIN gs.text_score}

RECURSIVE SumTextScore(_, _)
SumTextScore(gs, matched) ==
    IF matched = {} THEN 0
    ELSE LET row == CHOOSE r \in matched : TRUE
         IN gs.text_score[row[2]] + SumTextScore(gs, matched \ {row})

\* max(text_score) in place of sum(text_score)
MatchScoreMax(gs, p) ==
    LET scores == {gs.text_score[r[2]] : r \in {r \in MatchRows(gs) : r[1] = p}}
    IN CHOOSE m \in scores : \A x \in scores : x <= m

\* WITH p, sum(text_score) AS match_score
MatchScore(gs, p) == SumTextScore(gs, {r \in MatchRows(gs) : r[1] = p})

\* the ids of a set in ascending order
RECURSIVE AscendingIds(_)
AscendingIds(S) ==
    IF S = {} THEN <<>>
    ELSE LET m == CHOOSE x \in S : \A y \in S : x <= y
         IN <<m>> \o AscendingIds(S \ {m})

\* ORDER BY match_score DESC, p.db_id   LIMIT $limit
CypherRecords(gs, limit) ==
    LET by_id == AscendingIds({r[1] : r \in MatchRows(gs)})
        perm == SortPermDesc([i \in 1..Len(by_id) |-> Rat(MatchScore(gs, by_id[i]), 1)])
        ordered == [i \in 1..Len(perm) |->
                       [db_id |-> by_id[perm[i]],
                        match_score |-> MatchScore(gs, by_id[perm[i]])]]
    IN SubSeq(ordered, 1, Min(limit, Len(ordered)))

\* lines 251-255: candidates without a row in the articles table are dropped
RECURSIVE ResolveDetails(_, _)
ResolveDetails(candidates, details) ==
    IF candidates = <<>> THEN <<>>
    ELSE (IF Head(candidates).db_id \in details
          THEN <<[id |-> Head(candidates).db_id,
                  graph_score |-> Head(candidates).match_score]>>
          ELSE <<>>) \o ResolveDetails(Tail(candidates), details)

\* graph_semantic_search(query_text, k) for a non-empty query_text; every
\* exception of the try block is logged and the results so far are returned
GraphSearchResults(query_terms, k, gs, details) ==
    IF k <= 0 THEN <<>>
    ELSE IF query_terms = <<>> THEN <<>>
    ELSE IF ~gs.reachable THEN <<>>
    ELSE ResolveDetails(CypherRecords(gs, k), details)

InitSearch ==
    /\ q_pc = "call"
    /\ q_terms = <<>>
    /\ q_k \in SearchKValues
    /\ q_store = [reachable |-> TRUE, has_concept |-> {},
                  text_score |-> [c \in {} |-> 0]]
    /\ q_details = ParagraphIds
    /\ q_outcome = "none"
    /\ q_results = <<>>

IdleSearch ==
    /\ q_pc = "off"
    /\ q_terms = <<>>
    /\ q_k = 0
    /\ q_store = [reachable |-> TRUE, has_concept |-> {},
                  text_score |-> [c \in {} |-> 0]]
    /\ q_details = {}
    /\ q_outcome = "none"
    /\ q_results = <<>>

\* graph_semantic_search, the whole call
GraphSemanticSearch ==
    /\ q_pc = "call"
    /\ q_pc' = "done"
    /\ \E terms \in QueryTermLists, gs \in GraphStores, details \in DetailSets :
        /\ q_terms' = terms
        /\ q_store' = gs
        /\ q_details' = details
        /\ q_results' = GraphSearchResults(terms, q_k, gs, details)
    /\ q_outcome' = "return"
    /\ UNCHANGED q_k
    /\ UNCHANGED <<fusionVars, rerankVars, buildVars, batchVars, apiVars>>

(***************************************************************************)
(* Search endpoints and the stores behind them       src/app.py:80-245     *)
(*                                                                         *)
(* a_env describes the persisted artifacts when the request arrives:       *)
(*   db_file     : os.path.exists(DB_FILE_PATH)                            *)
(*   index       : "ok", "missing" (no file), "unreadable" (read_index     *)
(*                 raises RuntimeError)                                    *)
(*   mapping     : faiss_row_ids.json is "ok", "missing" or "corrupt"      *)
(*   sizes_match : index.ntotal == len(all_doc_ids_in_db)                  *)
(*   graph_store : the Graph Store accepts the connection and the query    *)
(***************************************************************************)
KDefault == 5

Endpoints == {"article_content", "semantic", "graph", "combined"}
\* request.args.get(name): absent, present and empty, present
Params ==
    {[present |-> FALSE, value |-> ""], [present |-> TRUE, value |-> ""],
     [present |-> TRUE, value |-> "viteza"]}
Environments ==
    [db_file : BOOLEAN, index : {"ok", "missing", "unreadable"},
     mapping : {"ok", "missing", "corrupt"}, sizes_match : BOOLEAN,
     graph_store : BOOLEAN]

\* what the stores answer to the query when they are available
SemanticAnswer == <<[id |-> 1, branch |-> "semantic"], [id |-> 2, branch |-> "semantic"]>>
GraphAnswer == <<[id |-> 2, branch |-> "graph"]>>
ContentAnswer == <<[id |-> 1, branch |-> "content"]>>

NotCalled == [called |-> FALSE, kind |-> "none", results |-> <<>>]
Returned(results) == [called |-> TRUE, kind |-> "return", results |-> results]
Raised == [called |-> TRUE, kind |-> "raise", results |-> <<>>]

\* only a parameter that is absent is rejected
ParamIsNone(param) == ~param.present

\* "if not query" / "if not article_header"  (lines 86, 115, 151, 183)
ParamMissing(param) == ~param.present \/ param.value = ""

\* cosine_search_with_concepts, lines 63-107 and what follows when the index
\* and the mapping are usable
CosineSearchCall(env) ==
    IF env.index = "missing" THEN Returned(<<>>)
    ELSE IF ~env.db_file THEN Returned(<<>>)
    ELSE IF env.index = "unreadable" THEN Returned(<<>>)
    ELSE IF env.mapping = "corrupt" THEN Raised
    ELSE IF env.mapping = "missing" /\ ~env.sizes_match THEN Returned(<<>>)
    ELSE Returned(SemanticAnswer)

\* the stores cosine_search_with_concepts touches
CosineSearchAccess(env) ==
    IF env.index = "missing" THEN {"VectorIndex"}
    ELSE {"VectorIndex", "DocumentStore"}

\* graph_semantic_search, lines 219-263: an unreachable store is logged and
\* the empty results list is returned; without the articles table no
\* candidate resolves to a record
GraphSearchCall(env) ==
    IF env.graph_store /\ env.db_file THEN Returned(GraphAnswer) ELSE Returned(<<>>)

\* lines 206-241 with the default rrf_k and k
FuseDefault(sem, gr) ==
    PyPrefix(SortedByRRF(CombinedUnsorted(FusedScores(sem, gr, RrfKDefault), sem, gr)),
             KDefault)

InitApi ==
    /\ a_pc = "request"
    /\ a_endpoint \in Endpoints
    /\ a_param \in Params
    /\ a_env \in Environments
    /\ a_accessed = {}
    /\ a_sem = NotCalled
    /\ a_gr = NotCalled
    /\ a_status = 0
    /\ a_results = <<>>

IdleApi ==
    /\ a_pc = "off"
    /\ a_endpoint = "none"
    /\ a_param = [present |-> FALSE, value |-> ""]
    /\ a_env = [db_file |-> TRUE, index |-> "ok", mapping |-> "ok",
                sizes_match |-> TRUE, graph_store |-> TRUE]
    /\ a_accessed = {}
    /\ a_sem = NotCalled
    /\ a_gr = NotCalled
    /\ a_status = 0
    /\ a_results = <<>>

\* the parameter test that opens each of the four handlers
RejectRequest ==
    /\ a_pc = "request"
    /\ ParamMissing(a_param)
    /\ a_status' = 400
    /\ a_pc' = "done"
    /\ UNCHANGED <<a_endpoint, a_param, a_env, a_accessed, a_sem, a_gr, a_results>>
    /\ UNCHANGED <<fusionVars, rerankVars, buildVars, batchVars, searchVars>>

\* search_specific_article_content_endpoint, lines 88-102
ArticleContentEndpoint ==
    /\ a_pc = "request"
    /\ a_endpoint = "article_content"
    /\ ~ParamMissing(a_param)
    /\ a_accessed' = {"DocumentStore"}
    /\ IF ~a_env.db_file
       THEN a_status' = 500 /\ a_results' = <<>>
       ELSE a_status' = 200 /\ a_results' = ContentAnswer
    /\ a_pc' = "done"
    /\ UNCHANGED <<a_endpoint, a_param, a_env, a_sem, a_gr>>
    /\ UNCHANGED <<fusionVars, rerankVars, buildVars, batchVars, searchVars>>

\* semantic_search_endpoint, lines 118-141
SemanticSearchEndpoint ==
    /\ a_pc = "request"
    /\ a_endpoint = "semantic"
    /\ ~ParamMissing(a_param)
    /\ IF ~a_env.db_file \/ a_env.index = "missing"
       THEN /\ a_accessed' = {"DocumentStore", "VectorIndex"}
            /\ a_sem' = NotCalled
            /\ a_status' = 500
            /\ a_results' = <<>>
       ELSE /\ a_accessed' = {"DocumentStore", "VectorIndex"} \cup CosineSearchAccess(a_env)
            /\ a_sem' = CosineSearchCall(a_env)
            /\ IF a_sem'.kind = "raise"
               THEN a_status' = 500 /\ a_results' = <<>>
               ELSE a_status' = 200 /\ a_results' = a_sem'.results
    /\ a_pc' = "done"
    /\ UNCHANGED <<a_endpoint, a_param, a_env, a_gr>>
    /\ UNCHANGED <<fusionVars, rerankVars, buildVars, batchVars, searchVars>>

\* graph_search_endpoint, lines 154-170
GraphSearchEndpoint ==
    /\ a_pc = "request"
    /\ a_endpoint = "graph"
    /\ ~ParamMissing(a_param)
    /\ IF ~a_env.db_file
       THEN /\ a_accessed' = {"DocumentStore"}
            /\ a_gr' = NotCalled
            /\ a_status' = 500
            /\ a_results' = <<>>
       ELSE /\ a_accessed' = {"DocumentStore", "GraphStore"}
            /\ a_gr' = GraphSearchCall(a_env)
            /\ IF a_gr'.kind = "raise"
               THEN a_status' = 500 /\ a_results' = <<>>
               ELSE a_status' = 200 /\ a_results' = a_gr'.results
    /\ a_pc' = "done"
    /\ UNCHANGED <<a_endpoint, a_param, a_env, a_sem>>
    /\ UNCHANGED <<fusionVars, rerankVars, buildVars, batchVars, searchVars>>

\* combined_search_endpoint, lines 186-245, with the two branch calls carried
\* out against the stores: an exception of either call reaches the handler's
\* except clause
CombinedSearchWithStores ==
    /\ a_pc = "request"
    /\ a_endpoint = "combined"
    /\ ~ParamMissing(a_param)
    /\ a_sem' = CosineSearchCall(a_env)
    /\ IF a_sem'.kind = "raise"
       THEN /\ a_accessed' = CosineSearchAccess(a_env)
            /\ a_gr' = NotCalled
            /\ a_status' = 500
            /\ a_results' = <<>>
       ELSE /\ a_accessed' = CosineSearchAccess(a_env) \cup {"GraphStore"}
            /\ a_gr' = GraphSearchCall(a_env)
            /\ IF a_gr'.kind = "raise"
               THEN a_status' = 500 /\ a_results' = <<>>
               ELSE /\ a_status' = 200
                    /\ a_results' = FuseDefault(a_sem'.results, a_gr'.results)
    /\ a_pc' = "done"
    /\ UNCHANGED <<a_endpoint, a_param, a_env>>
    /\ UNCHANGED <<fusionVars, rerankVars, buildVars, batchVars, searchVars>>

(***************************************************************************)
(* Specifications                                                          *)
(***************************************************************************)
NextFusion == CombinedSearchEndpoint
InitFusionSpec ==
    InitFusion /\ IdleRerank /\ IdleBuild
    /\ IdlePayload /\ IdleExport /\ IdleApi /\ IdleSearch
SpecFusion == InitFusionSpec /\ [][NextFusion]_vars

NextRerank == CosineSearchWithConcepts
InitRerankSpec ==
    IdleFusion /\ InitRerank /\ IdleBuild
    /\ IdlePayload /\ IdleExport /\ IdleApi /\ IdleSearch
SpecRerank == InitRerankSpec /\ [][NextRerank]_vars

NextBuild ==
    \/ BuildParagraph
    \/ BuildConcept
    \/ BuildEntity
    \/ BuildTriple
    \/ BuildReturn
InitBuildSpec ==
    IdleFusion /\ IdleRerank /\ InitBuild
    /\ IdlePayload /\ IdleExport /\ IdleApi /\ IdleSearch
SpecBuild == InitBuildSpec /\ [][NextBuild]_vars

NextPayload ==
    \/ PayloadBuildRow
    \/ PayloadBuildReturn
InitPayloadSpec ==
    IdleFusion /\ IdleRerank /\ IdleBuild /\ InitPayload /\ IdleExport /\ IdleApi
    /\ IdleSearch
SpecPayload == InitPayloadSpec /\ [][NextPayload]_vars

NextGraphStep ==
    \/ GraphStepBuild
    \/ ExportConnect
    \/ ExportClear
    \/ ExportBegin
    \/ ExportNode
    \/ ExportEdge
    \/ ExportCommit
InitGraphStepSpec ==
    IdleFusion /\ IdleRerank /\ IdleBuild /\ IdlePayload /\ InitExport /\ IdleApi
    /\ IdleSearch
SpecGraphStep == InitGraphStepSpec /\ [][NextGraphStep]_vars

NextApi ==
    \/ RejectRequest
    \/ ArticleContentEndpoint
    \/ SemanticSearchEndpoint
    \/ GraphSearchEndpoint
    \/ CombinedSearchWithStores
InitApiSpec ==
    IdleFusion /\ IdleRerank /\ IdleBuild /\ IdlePayload /\ IdleExport /\ InitApi
    /\ IdleSearch
SpecApi == InitApiSpec /\ [][NextApi]_vars

NextGraphSearch == GraphSemanticSearch
InitGraphSearchSpec ==
    IdleFusion /\ IdleRerank /\ IdleBuild /\ IdlePayload /\ IdleExport /\ IdleApi
    /\ InitSearch
SpecGraphSearch == InitGraphSearchSpec /\ [][NextGraphSearch]_vars

(***************************************************************************)
(* Properties of combined search                                           *)
(***************************************************************************)
\* 0-based rank of a document in a branch list
RankIn(results, doc_id) == (CHOOSE i \in 1..Len(results) : results[i].id = doc_id) - 1

\* sum over the lists that hold the document of 1 / (rrfK + r + 1)
ExpectedRRF(doc_id, sem, gr, rrf_k) ==
    RAdd(IF doc_id \in IdsOf(sem)
         THEN Rat(1, rrf_k + RankIn(sem, doc_id) + 1) ELSE RZero,
         IF doc_id \in IdsOf(gr)
         THEN Rat(1, rrf_k + RankIn(gr, doc_id) + 1) ELSE RZero)

PositionIn(results, doc_id) == CHOOSE i \in 1..Len(results) : results[i].id = doc_id

\* C1: in combined search the fused score of every document equals the sum,
\* over each branch list in which it appears, of 1 / (rrfK + r + 1) with r its
\* 0-based rank in that list; a list without the document contributes nothing.
C1_FusedScoreIsRRFSum ==
    c_status = 200 =>
        /\ \A d \in IdsOf(semantic_results) \cup IdsOf(graph_results) :
              /\ DictHas(fused_scores, d)
              /\ REq(DictGet(fused_scores, d),
                     ExpectedRRF(d, semantic_results, graph_results, c_rrf_k))
        /\ \A i \in 1..Len(combined_results) :
              REq(combined_results[i].rrf_score,
                  ExpectedRRF(combined_results[i].id, semantic_results,
                              graph_results, c_rrf_k))

\* the scenario of the design: semantic [P1,P2,P3], graph [P2,P4,P1], rrfK = 60
C1_Witness ==
    /\ c_status = 200
    /\ c_rrf_k = RrfKDefault
    /\ [i \in 1..Len(semantic_results) |-> semantic_results[i].id] = <<1, 2, 3>>
    /\ [i \in 1..Len(graph_results) |-> graph_results[i].id] = <<2, 4, 1>>
    /\ REq(DictGet(fused_scores, 1), RAdd(Rat(1, 61), Rat(1, 63)))
    /\ REq(DictGet(fused_scores, 4), Rat(1, 62))

IsSortedByRRFDesc(results) ==
    \A i, j \in 1..Len(results) :
        i < j => ~RLess(results[i].rrf_score, results[j].rrf_score)

\* C2: combined search returns the fused documents ordered by accumulated RRF
\* score descending and truncated to the first kFinal entries; for semantic
\* [P1,P2,P3], graph [P2,P4,P1] and rrfK = 60, P2 is ranked above P1.
C2_SortedAndTruncated ==
    c_status = 200 =>
        /\ IsSortedByRRFDesc(combined_results)
        /\ IdsOf(combined_results) = IdsOf(semantic_results) \cup IdsOf(graph_results)
        /\ c_results = SubSeq(combined_results, 1, Min(c_k, Len(combined_results)))
        /\ ( /\ c_rrf_k = RrfKDefault
             /\ [i \in 1..Len(semantic_results) |-> semantic_results[i].id] = <<1, 2, 3>>
             /\ [i \in 1..Len(graph_results) |-> graph_results[i].id] = <<2, 4, 1>>
           ) => PositionIn(combined_results, 2) < PositionIn(combined_results, 1)

\* the part of C2 that the handler does satisfy: for kFinal >= 0 the response
\* is the first kFinal fused documents in descending score order
SortedAndTruncatedForNonNegativeK ==
    (c_status = 200 /\ c_k >= 0) => C2_SortedAndTruncated

\* C3: the found_by tags of every fused document are exactly the branches
\* whose list holds the document; never empty, never a branch without it.
C3_FoundByIsContributingBranches ==
    c_status = 200 =>
        \A i \in 1..Len(combined_results) :
            LET e == combined_results[i]
            IN /\ SeqRange(e.found_by) =
                      {t \in {"semantic", "graph"} :
                          \/ t = "semantic" /\ e.id \in IdsOf(semantic_results)
                          \/ t = "graph" /\ e.id \in IdsOf(graph_results)}
               /\ e.found_by # <<>>

C3_Witness ==
    /\ c_status = 200
    /\ \E i, j, k \in 1..Len(c_results) :
        /\ SeqRange(c_results[i].found_by) = {"semantic", "graph"}
        /\ SeqRange(c_results[j].found_by) = {"semantic"}
        /\ SeqRange(c_results[k].found_by) = {"graph"}

InBoth(d) == d \in IdsOf(semantic_results) /\ d \in IdsOf(graph_results)
InOne(d) == (d \in IdsOf(semantic_results)) # (d \in IdsOf(graph_results))
RanksOf(d) ==
    {RankIn(l, d) : l \in {l \in {semantic_results, graph_results} : d \in IdsOf(l)}}

\* C4: for rrfK > 0 a document at rank r in both lists scores strictly more
\* than a document at rank r in only one list, and is ranked before it.
\* The one-list score at rank r is that of the same request with the other
\* branch returning nothing; within one request the comparison is against
\* any one-list document whose rank equals a rank of the two-list document.
C4_TwoListsOutscoreOne ==
    (c_status = 200 /\ c_rrf_k > 0) =>
        /\ \A d \in Docs :
              (InBoth(d) /\ RankIn(semantic_results, d) = RankIn(graph_results, d)) =>
                  /\ RLess(DictGet(FusedScores(semantic_results, <<>>, c_rrf_k), d),
                           DictGet(fused_scores, d))
                  /\ RLess(DictGet(FusedScores(<<>>, graph_results, c_rrf_k), d),
                           DictGet(fused_scores, d))
        /\ \A d, e \in Docs :
              (InBoth(d) /\ InOne(e) /\ RanksOf(e) \subseteq RanksOf(d)) =>
                  /\ RLess(DictGet(fused_scores, e), DictGet(fused_scores, d))
                  /\ PositionIn(combined_results, d) < PositionIn(combined_results, e)

C4_Witness ==
    /\ c_status = 200
    /\ c_rrf_k > 0
    /\ \E d \in Docs :
        /\ InBoth(d)
        /\ RankIn(semantic_results, d) = RankIn(graph_results, d)
    /\ \E d, e \in Docs :
        /\ InBoth(d) /\ InOne(e) /\ RanksOf(e) \subseteq RanksOf(d)
        /\ PositionIn(combined_results, d) < PositionIn(combined_results, e)

\* how often a document id is listed in a result list
TimesListed(results, doc_id) ==
    Cardinality({i \in 1..Len(results) : results[i].id = doc_id})

\* C30: before truncation to kFinal, the fused result holds each document id
\* of the semantic list or of the graph list exactly once and no other
\* document; a document returned by both branches is never listed twice.
C30_FusedResultListsEachDocumentOnce ==
    c_status = 200 =>
        \A d \in Docs :
            TimesListed(combined_results, d) =
                IF d \in IdsOf(semantic_results) \cup IdsOf(graph_results) THEN 1 ELSE 0

\* documents 1 and 2 come from both branches, 3 and 4 from one each
C30_Witness ==
    /\ c_status = 200
    /\ [i \in 1..Len(semantic_results) |-> semantic_results[i].id] = <<1, 2, 3>>
    /\ [i \in 1..Len(graph_results) |-> graph_results[i].id] = <<2, 4, 1>>
    /\ Len(combined_results) = 4
    /\ Len(c_results) < Len(combined_results)

(***************************************************************************)
(* Properties of the semantic reranker                                     *)
(***************************************************************************)
\* position of a returned document in the vector-search retrieval order
RetrievalPosition(doc_id) ==
    CHOOSE i \in 1..Len(r_hits) :
        /\ r_hits[i][1] + 1 <= Len(db_ids_for_faiss_indices)
        /\ db_ids_for_faiss_indices[r_hits[i][1] + 1] = doc_id

SortedStable(results) ==
    \A i, j \in 1..Len(results) :
        i < j =>
            /\ ~RLess(results[i].final_score, results[j].final_score)
            /\ REq(results[i].final_score, results[j].final_score) =>
                   RetrievalPosition(results[i].id) < RetrievalPosition(results[j].id)

\* C5: the reranker returns candidates sorted by final score descending, and
\* candidates with identical final scores keep the relative order in which
\* the vector search retrieved them.
C5_SortedDescendingStable ==
    r_pc = "done" => SortedStable(r_sorted) /\ SortedStable(r_return)

\* P1{a,b}, P2{b,c}; retrieval [P2 at 0.1, P1 at 0.3]; alpha = 0; term "b"
C5_Witness ==
    /\ r_pc = "done"
    /\ r_hits = << <<1, 1>>, <<0, 3>> >>
    /\ r_alpha = 0
    /\ r_lemmas = << <<"b">> >>
    /\ Len(r_return) = 2
    /\ REq(r_return[1].overlap_score, Rat(1, 2))
    /\ REq(r_return[1].final_score, r_return[2].final_score)
    /\ <<r_return[1].id, r_return[2].id>> = <<2, 1>>

\* C6: of two candidates of one batch with equal overlap score, alpha in
\* [0,1], the one with the strictly smaller distance has a strictly higher
\* final score when alpha > 0 and an equal one when alpha = 0.
C6_ScoreMonotoneInDistance ==
    (r_pc = "done" /\ r_alpha >= 0 /\ r_alpha <= 10) =>
        \A i, j \in 1..Len(r_sorted) :
            ( /\ REq(r_sorted[i].overlap_score, r_sorted[j].overlap_score)
              /\ r_sorted[i].raw_distance < r_sorted[j].raw_distance ) =>
                /\ r_alpha > 0 => RLess(r_sorted[j].final_score, r_sorted[i].final_score)
                /\ r_alpha = 0 => REq(r_sorted[j].final_score, r_sorted[i].final_score)
                /\ ~RLess(r_sorted[i].final_score, r_sorted[j].final_score)

C6_Witness ==
    /\ r_pc = "done"
    /\ r_alpha = 3
    /\ \E i, j \in 1..Len(r_sorted) :
        /\ REq(r_sorted[i].overlap_score, r_sorted[j].overlap_score)
        /\ ~REq(r_sorted[i].overlap_score, RZero)
        /\ r_sorted[i].raw_distance < r_sorted[j].raw_distance
        /\ RLess(r_sorted[j].final_score, r_sorted[i].final_score)

\* the distances of the candidates that were not skipped
CandidateDistances == {raw_candidates[i].distance : i \in 1..Len(raw_candidates)}
MinOf(S) == CHOOSE x \in S : \A y \in S : x <= y
MaxOf(S) == CHOOSE x \in S : \A y \in S : x >= y
InUnitInterval(r) == ~RLess(r, RZero) /\ ~RLess(ROne, r)

\* C21: when the scored candidates have at least two distinct distances, each
\* candidate's semantic score is 1 - (distance - min)/(max - min), min and max
\* over the candidates that were not skipped; every semantic score lies in
\* [0,1], the nearest candidate scores 1 and the farthest scores 0.
C21_MinMaxNormalization ==
    (r_pc = "done" /\ Cardinality(CandidateDistances) >= 2) =>
        LET mn == MinOf(CandidateDistances)
            mx == MaxOf(CandidateDistances)
        IN \A i \in 1..Len(r_sorted) :
            /\ REq(r_sorted[i].semantic_score,
                   RSub(ROne, Rat(r_sorted[i].raw_distance - mn, mx - mn)))
            /\ InUnitInterval(r_sorted[i].semantic_score)
            /\ r_sorted[i].raw_distance = mn => REq(r_sorted[i].semantic_score, ROne)
            /\ r_sorted[i].raw_distance = mx => REq(r_sorted[i].semantic_score, RZero)

\* hits at distances 0.1, 0.3 and 1.2, the middle one skipped
C21_Witness ==
    /\ r_pc = "done"
    /\ Len(r_hits) = 3
    /\ Len(raw_candidates) = 2
    /\ CandidateDistances = {1, 12}
    /\ r_hits[2][2] = 3
    /\ \E i \in 1..Len(r_sorted) : REq(r_sorted[i].semantic_score, ROne)
    /\ \E i \in 1..Len(r_sorted) : REq(r_sorted[i].semantic_score, RZero)

\* the fixed fallback policy on a raw distance (in tenths)
FallbackPolicy(distance) ==
    IF distance < 10 THEN ROne
    ELSE IF distance > 15 THEN Rat(1, 10)
    ELSE Rat(5, 10)

\* C22: in the degenerate case of the normalization, all candidate distances
\* equal (any number of candidates) or exactly one candidate, the semantic
\* score is 1.0 if the raw distance is below 1.0, 0.1 if it is above 1.5 and
\* 0.5 otherwise.
C22_DegenerateCaseUsesFallbackPolicy ==
    (r_pc = "done" /\ Cardinality(CandidateDistances) = 1) =>
        \A i \in 1..Len(r_sorted) :
            REq(r_sorted[i].semantic_score, FallbackPolicy(r_sorted[i].raw_distance))

\* what the reranker does guarantee: the policy applies to a lone candidate
LoneCandidateUsesFallbackPolicy ==
    (r_pc = "done" /\ Len(raw_candidates) = 1) =>
        REq(r_sorted[1].semantic_score, FallbackPolicy(r_sorted[1].raw_distance))

\* and several candidates at one distance all score 0
EqualDistancesScoreZero ==
    (r_pc = "done" /\ Len(raw_candidates) >= 2 /\ Cardinality(CandidateDistances) = 1) =>
        \A i \in 1..Len(r_sorted) : REq(r_sorted[i].semantic_score, RZero)

\* c.lower() contains the term at some offset
ContainsIgnoringCase(c, term) ==
    \E o \in 0..(Len(c) - Len(term)) :
        \A k \in 1..Len(term) : LowerChar(c[o + k]) = term[k]

MatchedCount(concepts, terms) ==
    Cardinality({i \in 1..Len(concepts) :
                    \E t \in 1..Len(terms) : ContainsIgnoringCase(concepts[i], terms[t])})

\* C23: every candidate's overlap score is |matched| / max(|concepts|, 1), a
\* concept being matched exactly when it contains a query term as a
\* case-insensitive substring; the score lies in [0,1] and is 0 when the
\* document has no concepts or the query has no terms.
C23_OverlapScore ==
    r_pc = "done" =>
        \A i \in 1..Len(raw_candidates) :
            LET cand == raw_candidates[i]
                concepts == concepts_by_id[cand.id]
            IN /\ REq(cand.overlap_score,
                      Rat(MatchedCount(concepts, r_lemmas), Max(Len(concepts), 1)))
               /\ Len(cand.matched_concepts) = MatchedCount(concepts, r_lemmas)
               /\ InUnitInterval(cand.overlap_score)
               /\ (concepts = <<>> \/ r_lemmas = <<>>) => REq(cand.overlap_score, RZero)
               /\ \E j \in 1..Len(r_sorted) :
                      /\ r_sorted[j].id = cand.id
                      /\ r_sorted[j].overlap_score = cand.overlap_score

\* term "a": document 2 matches through its concept "Ac", document 3 has no
\* concepts
C23_Witness ==
    /\ r_pc = "done"
    /\ r_lemmas = << <<"a">> >>
    /\ \E i, j \in 1..Len(raw_candidates) :
        /\ raw_candidates[i].id = 2
        /\ REq(raw_candidates[i].overlap_score, Rat(1, 2))
        /\ raw_candidates[j].id = 3
        /\ REq(raw_candidates[j].overlap_score, RZero)

\* a retrieved entry that has a document id with metadata
ValidHit(hit) ==
    /\ hit[1] >= 0
    /\ hit[1] < Len(db_ids_for_faiss_indices)
    /\ db_ids_for_faiss_indices[hit[1] + 1] \in metadata_ids

ValidHitPositions == {i \in 1..Len(r_hits) : ValidHit(r_hits[i])}

\* C24: a retrieved entry without an id mapping entry or without metadata is
\* skipped; every other retrieved entry is scored and eligible for the
\* result, so a bad entry never empties the result when valid entries exist.
C24_BadEntrySkippedOthersScored ==
    r_pc = "done" =>
        /\ Len(r_sorted) = Cardinality(ValidHitPositions)
        /\ \A i \in ValidHitPositions :
               \E j \in 1..Len(r_sorted) :
                   /\ r_sorted[j].id = db_ids_for_faiss_indices[r_hits[i][1] + 1]
                   /\ r_sorted[j].raw_distance = r_hits[i][2]
        /\ r_top_k >= Len(r_sorted) => Len(r_return) = Len(r_sorted)
        /\ (r_top_k > 0 /\ ValidHitPositions # {}) => r_return # <<>>

\* an unmapped row first, a row without metadata second, a valid row last
C24_Witness ==
    /\ r_pc = "done"
    /\ Len(r_hits) = 3
    /\ r_hits[1][1] = 4
    /\ r_hits[2][1] = 3
    /\ ValidHit(r_hits[3])
    /\ r_top_k = 2
    /\ Len(r_return) = 1

(***************************************************************************)
(* Properties of the graph build                                           *)
(***************************************************************************)
\* Entity > Concept > Term > unset
LabelRank(label) ==
    CASE label = NODE_LABEL_ENTITY -> 3
      [] label = NODE_LABEL_CONCEPT -> 2
      [] label = NODE_LABEL_TERM -> 1
      [] OTHER -> 0

RankedLabels == {NODE_LABEL_ENTITY, NODE_LABEL_CONCEPT, NODE_LABEL_TERM, NoLabel}
LabelOf(nodes, n) == AttrGet(nodes[n], "label", NoLabel)

\* C7: across the node create/upgrade operations of a build, a node's label
\* never moves to a lower precedence in Entity > Concept > Term > unset.
C7_LabelNeverDowngraded ==
    [][\A n \in DOMAIN g_nodes :
          LabelOf(g_nodes, n) \in RankedLabels =>
              /\ n \in DOMAIN g_nodes'
              /\ LabelOf(g_nodes', n) \in RankedLabels
              /\ LabelRank(LabelOf(g_nodes', n)) >= LabelRank(LabelOf(g_nodes, n))]_vars

\* key "a" was labelled Entity by row 1 and met again as a Concept and as a
\* triple subject in row 2
C7_Witness ==
    /\ Len(rows) = 2
    /\ \E i \in 1..Len(rows[1].entities) : Strip(rows[1].entities[i].text) = <<"a">>
    /\ <<"a">> \in SeqRange(rows[2].concepts)
    /\ \E i \in 1..Len(rows[2].svo_triples) :
          /\ Strip(rows[2].svo_triples[i][1]) = <<"a">>
          /\ <<"a">> \in DOMAIN g_nodes
          /\ LabelOf(g_nodes, <<"a">>) = NODE_LABEL_ENTITY

ValidTriple(t) == \A i \in 1..3 : Strip(t[i]) # <<>>

\* every occurrence of a link in one row: <<source key, target key>>
RowOccurrences(row) ==
    [i \in 1..Len(row.concepts) |-> <<ParagraphKey(row.id), Strip(row.concepts[i])>>]
    \o [i \in 1..Len(row.entities) |->
            <<ParagraphKey(row.id), Strip(row.entities[i].text)>>]
    \o [i \in 1..Len(SelectSeq(row.svo_triples, ValidTriple)) |->
            LET t == SelectSeq(row.svo_triples, ValidTriple)[i]
            IN <<Strip(t[1]), Strip(t[3])>>]

RECURSIVE Occurrences(_)
Occurrences(rs) ==
    IF rs = <<>> THEN <<>> ELSE RowOccurrences(Head(rs)) \o Occurrences(Tail(rs))

OccurrenceCount(pair) ==
    Cardinality({i \in 1..Len(Occurrences(rows)) : Occurrences(rows)[i] = pair})

\* the number of edges the graph holds between an ordered pair of nodes
EdgeCount(pair) == IF pair \in DOMAIN g_edges THEN 1 ELSE 0

\* C9: the built graph holds one edge per occurrence: n triples or structural
\* links with the same source and target give n edges between that pair.
C9_OneEdgePerOccurrence ==
    \A pair \in SeqRange(Occurrences(rows)) \cup DOMAIN g_edges :
        EdgeCount(pair) = OccurrenceCount(pair)

\* what the builder does guarantee: every occurrence has its pair connected
EveryOccurrenceConnected ==
    SeqRange(Occurrences(rows)) = DOMAIN g_edges

\* the phrases the builder turned into nodes
PhrasesOf(rs) ==
    UNION {SeqRange(rs[i].concepts)
           \cup {rs[i].entities[j].text : j \in 1..Len(rs[i].entities)}
           \cup UNION {{rs[i].svo_triples[j][1], rs[i].svo_triples[j][3]} :
                        j \in {j \in 1..Len(rs[i].svo_triples) :
                                   ValidTriple(rs[i].svo_triples[j])}} :
           i \in 1..Len(rs)}

\* trimmed and case-folded
Normalized(phrase) == Lower(Strip(phrase))

NonParagraphNodes ==
    DOMAIN g_nodes \ {ParagraphKey(rows[i].id) : i \in 1..Len(rows)}

\* C10: two phrases are mapped to the same non-paragraph node if and only if
\* they are equal after trimming and case-folding: the graph has exactly one
\* non-paragraph node per normalized phrase.
C10_NodeIdentityIsNormalizedText ==
    /\ Cardinality(NonParagraphNodes)
         = Cardinality({Normalized(p) : p \in PhrasesOf(rows)})
    /\ \A p, q \in PhrasesOf(rows) :
          Normalized(p) = Normalized(q) =>
              \E n \in NonParagraphNodes :
                  \A x \in {p, q} : Strip(x) = g_nodes[n]["name"]

\* what the builder does guarantee: one node per trimmed phrase
NodeIdentityIsTrimmedText ==
    NonParagraphNodes = {Strip(p) : p \in PhrasesOf(rows)}

\* the category the classification rules give a predicate
ExpectedCategory(predicate) ==
    IF \E kw \in modal_keywords : Contains(Lower(predicate), kw) THEN "modal"
    ELSE IF Lower(predicate) \in prepositions_as_predicates THEN "prepositional"
    ELSE "svo"

\* the edge of a triple of row n carries the triple's predicate, its category
\* and the row's document id
TripleEdgeCarries(n, t) ==
    LET pair == <<Strip(t[1]), Strip(t[3])>>
    IN /\ pair \in DOMAIN g_edges
       /\ AttrGet(g_edges[pair], "predicate", <<>>) = Strip(t[2])
       /\ AttrGet(g_edges[pair], "category", "") = ExpectedCategory(Strip(t[2]))
       /\ AttrGet(g_edges[pair], "source_db_id", 0) = rows[n].id

AddedTriples ==
    {<<n, i>> \in (1..Len(rows)) \X (1..MaxItems) :
        /\ i <= Len(rows[n].svo_triples)
        /\ ValidTriple(rows[n].svo_triples[i])}

\* C25: for every relation triple added to the graph, the edge's category is
\* modal if the predicate matches the modal vocabulary, otherwise
\* prepositional if it is a preposition of the list, otherwise svo; the edge
\* also carries the predicate text and the source document id.
C25_TripleEdgeCarriesCategory ==
    \A x \in AddedTriples : TripleEdgeCarries(x[1], rows[x[1]].svo_triples[x[2]])

\* what the builder does guarantee: the edge carries the attributes of the
\* triple added last between its endpoints
LastAddedTripleEdgeCarriesCategory ==
    \A x \in AddedTriples :
        LET t == rows[x[1]].svo_triples[x[2]]
            later == {y \in AddedTriples :
                        /\ y[1] > x[1] \/ (y[1] = x[1] /\ y[2] > x[2])
                        /\ Strip(rows[y[1]].svo_triples[y[2]][1]) = Strip(t[1])
                        /\ Strip(rows[y[1]].svo_triples[y[2]][3]) = Strip(t[3])}
        IN later = {} => TripleEdgeCarries(x[1], t)

\* the edge from the Paragraph node of row n to the node of a text, with its tag
StructuralEdgeTagged(n, text, tag) ==
    LET pair == <<ParagraphKey(rows[n].id), Strip(text)>>
    IN /\ Strip(text) \in DOMAIN g_nodes
       /\ pair \in DOMAIN g_edges
       /\ AttrGet(g_edges[pair], "type", "") = tag

ConceptKeys(n) == {Strip(rows[n].concepts[i]) : i \in 1..Len(rows[n].concepts)} \ {<<>>}
EntityKeys(n) == {Strip(rows[n].entities[i].text) : i \in 1..Len(rows[n].entities)} \ {<<>>}

\* C26: after the build, every document has a HAS_CONCEPT edge from its
\* Paragraph node to the node of each of its non-blank concept phrases and a
\* MENTIONS_ENTITY edge to the node of each of its entities, also when one
\* text occurs both as a concept and as an entity of the document.
C26_StructuralEdgesTagged ==
    b_pc = "done" =>
        \A n \in 1..Len(rows) :
            /\ \A c \in ConceptKeys(n) : StructuralEdgeTagged(n, c, REL_TYPE_HAS_CONCEPT)
            /\ \A t \in EntityKeys(n) : StructuralEdgeTagged(n, t, REL_TYPE_MENTIONS_ENTITY)

\* what the builder does guarantee: every entity has its MENTIONS_ENTITY
\* edge, and every concept that is not also an entity of the same document
\* has its HAS_CONCEPT edge
StructuralEdgesTaggedEntityWins ==
    b_pc = "done" =>
        \A n \in 1..Len(rows) :
            /\ \A c \in ConceptKeys(n) \ EntityKeys(n) :
                   StructuralEdgeTagged(n, c, REL_TYPE_HAS_CONCEPT)
            /\ \A t \in EntityKeys(n) : StructuralEdgeTagged(n, t, REL_TYPE_MENTIONS_ENTITY)

\* the roles under which a key occurs anywhere in the table
RolesOf(key) ==
    {NODE_LABEL_CONCEPT : n \in {n \in 1..Len(rows) : key \in ConceptKeys(n)}}
    \cup {NODE_LABEL_ENTITY : n \in {n \in 1..Len(rows) : key \in EntityKeys(n)}}
    \cup {NODE_LABEL_TERM :
            x \in {x \in AddedTriples :
                     key \in {Strip(rows[x[1]].svo_triples[x[2]][1]),
                              Strip(rows[x[1]].svo_triples[x[2]][3])}}}

HighestRole(roles) ==
    CHOOSE r \in roles : \A q \in roles : LabelRank(r) >= LabelRank(q)

NewStore(G) ==
    [nodes |-> {NeoNode(n, G.nodes[n]) : n \in DOMAIN G.nodes},
     edges |-> {NeoRel(e[1], e[2], G.edges[e]) : e \in DOMAIN G.edges}]

InsertFailures == {"node_failed", "edge_failed"}
ExportFailures ==
    {"connect_failed", "clear_failed", "begin_failed", "node_failed",
     "edge_failed", "edge_skipped", "commit_failed"}

\* C11: after any run of the export, successful or failed at any step after
\* the connection is made, the Graph Store holds either its complete previous
\* contents or the complete new graph; a failure after the clear step never
\* leaves the store empty.
C11_BulkLoadAtomic ==
    (e_pc = "done" /\ "connect_failed" \notin e_log) =>
        store \in {PreviousStore, NewStore(nx_graph)}

\* what the export does guarantee: a run that fails before the clear step
\* leaves the previous contents in place
FailureBeforeClearKeepsStore ==
    (e_pc = "done" /\ e_log \cap {"connect_failed", "clear_failed"} # {}) =>
        store = PreviousStore

\* C12: if the insertion of any node or edge fails, nothing of the new graph
\* is committed; a committed load contains every node and every edge of the
\* built graph.
C12_FailedInsertRollsBack ==
    e_pc = "done" =>
        /\ e_log \cap InsertFailures # {} =>
              /\ store.nodes \cap NewStore(nx_graph).nodes = {}
              /\ store.edges \cap NewStore(nx_graph).edges = {}
        /\ "committed" \in e_log =>
              /\ NewStore(nx_graph).nodes \subseteq store.nodes
              /\ NewStore(nx_graph).edges \subseteq store.edges

\* what the export does guarantee: a load committed without a failed or
\* skipped insert is the whole graph
CommitWithoutFailureIsComplete ==
    (e_pc = "done" /\ "committed" \in e_log /\ e_log \cap ExportFailures = {}) =>
        store = NewStore(nx_graph)

\* C13: when the graph step runs with the Graph Store reachable and no insert
\* failing, the store afterwards holds exactly the nodes and edges derived
\* from the current snapshot and nothing from earlier loads, for every
\* snapshot, one that yields a graph without nodes included.
C13_StoreIsCurrentSnapshot ==
    (e_pc = "done" /\ e_log \cap ExportFailures = {}) =>
        store = NewStore(BuildLegalGraph(e_snapshot))

\* what the step does guarantee: the replacement for a graph that has nodes
StoreIsCurrentSnapshotForNonEmptyGraph ==
    ( /\ e_pc = "done"
      /\ e_log \cap ExportFailures = {}
      /\ DOMAIN nx_graph.nodes # {} ) =>
        store = NewStore(BuildLegalGraph(e_snapshot))

(***************************************************************************)
(* Properties of the search endpoints                                      *)
(***************************************************************************)
\* the required parameter is missing or empty
RequiredParamAbsent == ~a_param.present \/ a_param.value = ""

\* C14: for semantic-search, graph-search, combined-search (query string) and
\* content-by-article (article header), a missing or empty required parameter
\* has the request rejected as bad input, and at no point of the request is
\* the Document Store, the Vector Index or the Graph Store accessed.
C14_MissingParameterRejectedBeforeStores ==
    (a_pc # "off" /\ RequiredParamAbsent) =>
        /\ a_accessed = {}
        /\ ~a_sem.called /\ ~a_gr.called
        /\ a_pc = "done" => a_status = 400

\* an empty query string sent to combined search, answered with 400
C14_Witness ==
    /\ a_pc = "done"
    /\ a_endpoint = "combined"
    /\ a_param = [present |-> TRUE, value |-> ""]
    /\ a_status = 400
    /\ a_accessed = {}

\* C15: for every k <= 0 and every non-empty query, the semantic reranker
\* (kFinal), the graph searcher (k) and combined search (kFinal) each return
\* an empty result list and no error.
C15_NonPositiveKGivesEmptyResult ==
    /\ (r_pc = "done" /\ r_top_k <= 0) => r_return = <<>>
    /\ (q_pc = "done" /\ q_k <= 0) => (q_outcome = "return" /\ q_results = <<>>)
    /\ (c_pc = "done" /\ c_query # "" /\ c_k <= 0) =>
           (c_status = 200 /\ c_results = <<>>)

\* what the reranker does guarantee: kFinal = 0 gives the empty list
ZeroKGivesEmptyResult ==
    (r_pc = "done" /\ r_top_k = 0) => r_return = <<>>

\* what the graph searcher does guarantee: every k <= 0 gives the empty list
GraphSearchEmptyForNonPositiveK ==
    (q_pc = "done" /\ q_k <= 0) => (q_outcome = "return" /\ q_results = <<>>)

VectorIndexUnavailable ==
    a_env.index # "ok" \/ a_env.mapping # "ok"

\* C16: when the Vector Index or its id mapping is unavailable, the reranker
\* and the semantic-search endpoint end in an error the caller can tell from
\* a successful search without results; no ordinary result list is returned.
C16_VectorIndexFailureIsAnError ==
    (a_pc = "done" /\ ~RequiredParamAbsent /\ VectorIndexUnavailable) =>
        /\ a_sem.called => a_sem.kind = "raise"
        /\ a_endpoint = "semantic" => a_status \notin {0, 200}

\* what the endpoint does guarantee: a missing index file is answered with 500
MissingIndexFileIsAnError ==
    ( /\ a_pc = "done" /\ ~RequiredParamAbsent
      /\ a_endpoint = "semantic" /\ a_env.index = "missing" ) => a_status = 500

\* C17: when the Graph Store is unreachable or errors during a graph search,
\* the graph searcher and the graph-search endpoint surface a failure; they
\* do not answer with an empty result list.
C17_GraphStoreFailureIsAnError ==
    ( /\ a_pc = "done" /\ ~RequiredParamAbsent
      /\ a_endpoint = "graph" /\ ~a_env.graph_store ) =>
        /\ a_gr.called => a_gr.kind = "raise"
        /\ a_status \notin {0, 200}

SemanticBranchFails ==
    \/ a_env.index # "ok"
    \/ a_env.mapping = "corrupt"
    \/ a_env.mapping = "missing" /\ ~a_env.sizes_match
SemanticBranchWorks == a_env.index = "ok" /\ a_env.mapping = "ok"

\* C18: in combined search, if exactly one branch fails (store unreachable or
\* an error mid-query) while the other succeeds, the request succeeds: the
\* failed branch counts as an empty list and the fused ranking of the other
\* branch's results is returned, whichever branch fails.
C18_OneBranchFailureDegrades ==
    ( /\ a_pc = "done" /\ ~RequiredParamAbsent
      /\ a_endpoint = "combined" /\ a_env.db_file ) =>
        /\ (SemanticBranchFails /\ a_env.graph_store) =>
              /\ a_status = 200
              /\ a_results = FuseDefault(<<>>, GraphAnswer)
        /\ (SemanticBranchWorks /\ ~a_env.graph_store) =>
              /\ a_status = 200
              /\ a_results = FuseDefault(SemanticAnswer, <<>>)

\* what combined search does guarantee: a failing graph branch degrades
GraphBranchFailureDegrades ==
    ( /\ a_pc = "done" /\ ~RequiredParamAbsent
      /\ a_endpoint = "combined" /\ a_env.db_file
      /\ SemanticBranchWorks /\ ~a_env.graph_store ) =>
        /\ a_status = 200
        /\ a_results = FuseDefault(SemanticAnswer, <<>>)

(***************************************************************************)
(* Properties of the graph searcher                                        *)
(***************************************************************************)
\* the score a concept contributes to a paragraph: its match score when it is
\* matched and the paragraph references it through HAS_CONCEPT
Contribution(gs, p, c) ==
    IF <<p, c>> \in gs.has_concept /\ c \in DOMAIN gs.text_score
    THEN gs.text_score[c] ELSE 0

AggregateScore(gs, p) == Contribution(gs, p, "a") + Contribution(gs, p, "b")

\* C19: graph search returns at most k paragraphs; each paragraph's score is
\* the sum of the match scores of all matched concept nodes it references
\* through HAS_CONCEPT; the list is ordered by that score descending, ties
\* by ascending document id.
C19_GraphSearchOrderedByAggregateScore ==
    q_pc = "done" =>
        /\ Len(q_results) <= Max(q_k, 0)
        /\ \A i \in 1..Len(q_results) :
              /\ q_results[i].graph_score = AggregateScore(q_store, q_results[i].id)
              /\ q_results[i].graph_score > 0
        /\ \A i, j \in 1..Len(q_results) :
              i < j =>
                  \/ q_results[i].graph_score > q_results[j].graph_score
                  \/ /\ q_results[i].graph_score = q_results[j].graph_score
                     /\ q_results[i].id < q_results[j].id

\* k = 2; three paragraphs match: 2 and 3 reference both matched concepts and
\* tie on the sum of their scores, 1 references one of them
C19_Witness ==
    /\ q_pc = "done"
    /\ q_k = 2
    /\ q_store.text_score = [c \in {"a", "b"} |-> IF c = "a" THEN 1 ELSE 2]
    /\ q_store.has_concept = {<<1, "b">>, <<2, "a">>, <<2, "b">>, <<3, "a">>, <<3, "b">>}
    /\ q_results = <<[id |-> 2, graph_score |-> 3], [id |-> 3, graph_score |-> 3]>>

(***************************************************************************)
(* Properties of the graph build over stored payloads                      *)
(***************************************************************************)
\* the payload is text that does not parse to a list
Malformed(payload) == payload.kind \in {"invalid", "object"}

CleanPayload(payload) == IF Malformed(payload) THEN JList(<<>>) ELSE payload

\* the table with every malformed payload replaced by the empty list
CleanTable(table) ==
    [i \in 1..Len(table) |->
        [table[i] EXCEPT !.concepts = CleanPayload(@),
                         !.entities = CleanPayload(@),
                         !.svo_triples = CleanPayload(@)]]

\* C20: a document whose concepts, entities or triples payload fails to parse
\* (invalid JSON or not a list) is built as if that one field were empty: its
\* Paragraph node is created, its other fields are processed, and every other
\* document contributes what it contributes without the bad payload.
C20_MalformedPayloadIsEmptyField ==
    /\ p_G = BuildLegalGraph(CleanTable(p_rows))
    /\ \A i \in 1..Len(p_rows) :
          /\ ParagraphKey(p_rows[i].id) \in DOMAIN p_G.nodes
          /\ p_G.nodes[ParagraphKey(p_rows[i].id)]["db_id"] = p_rows[i].id

\* row 1: concepts are not JSON, the entity "A" is still linked; row 2:
\* triples are not JSON, its concepts are still linked
C20_Witness ==
    /\ Len(p_rows) = 2
    /\ p_rows[1].concepts.kind = "invalid"
    /\ <<ParagraphKey(1), <<"A">>>> \in DOMAIN p_G.edges
    /\ p_rows[2].svo_triples.kind = "invalid"
    /\ p_rows[2].entities.kind = "invalid"
    /\ <<ParagraphKey(2), <<"a">>>> \in DOMAIN p_G.edges
    /\ <<ParagraphKey(2), <<"b">>>> \in DOMAIN p_G.edges

\* the Paragraph node of a row carries the row's properties
ParagraphProperties(row) ==
    LET key == ParagraphKey(row.id)
    IN /\ key \in DOMAIN p_G.nodes
       /\ AttrGet(p_G.nodes[key], "db_id", 0) = row.id
       /\ AttrGet(p_G.nodes[key], "article_header", "") = row.article
       /\ AttrGet(p_G.nodes[key], "paragraph_identifier", "") = row.paragraph
       /\ LET snippet == AttrGet(p_G.nodes[key], "text_snippet", <<>>)
          IN /\ Len(snippet) <= 200 + 3
             /\ snippet = SubSeq(row.text, 1, Min(200, Len(row.text))) \o <<".", ".", ".">>

\* C27: after the build, for every document the node keyed by its document id
\* has label Paragraph and carries the document id, article header, paragraph
\* identifier and a text preview of bounded length, whatever concept, entity
\* or triple texts occur in any document.
C27_ParagraphNodePerDocument ==
    p_pc = "done" =>
        \A i \in 1..Len(p_rows) :
            /\ ParagraphProperties(p_rows[i])
            /\ AttrGet(p_G.nodes[ParagraphKey(p_rows[i].id)], "label", NoLabel)
                   = NODE_LABEL_PARAGRAPH

\* what the builder does guarantee: the node exists and carries the row's
\* properties
ParagraphNodeCarriesProperties ==
    \A i \in 1..Len(p_rows) : ParagraphProperties(p_rows[i])

\* a stored triple that passes the tests of lines 169-173
WellFormedTriple(t) ==
    /\ t.list
    /\ Len(t.elems) = 3
    /\ \A i \in 1..3 :
          /\ t.elems[i].str
          /\ \E k \in 1..Len(t.elems[i].text) : t.elems[i].text[k] # " "

\* the table with every triple that is not well formed taken out
WithoutInvalidTriples(table) ==
    [i \in 1..Len(table) |->
        [table[i] EXCEPT !.svo_triples =
            IF @.kind = "list" THEN JList(SelectSeq(@.items, WellFormedTriple)) ELSE @]]

TripleEdges(G) == {pair \in DOMAIN G.edges : "predicate" \in DOMAIN G.edges[pair]}

\* C29: a stored triple that is not a 3-element list, or has a component that
\* is not a non-blank string, adds no node and no edge, and the remaining
\* triples of the document are still processed; every triple edge of the
\* built graph has a non-empty predicate and a category in
\* {modal, prepositional, svo}.
C29_InvalidTripleLeavesGraphUnchanged ==
    /\ p_G = BuildLegalGraph(WithoutInvalidTriples(p_rows))
    /\ <<>> \notin DOMAIN p_G.nodes
    /\ \A pair \in TripleEdges(p_G) :
          /\ p_G.edges[pair]["predicate"] # <<>>
          /\ p_G.edges[pair]["category"] \in {"modal", "prepositional", "svo"}
    /\ \A i \in 1..Len(p_rows) :
          p_rows[i].svo_triples.kind = "list" =>
              \A j \in 1..Len(p_rows[i].svo_triples.items) :
                  LET t == p_rows[i].svo_triples.items[j]
                  IN WellFormedTriple(t) =>
                         <<Strip(t.elems[1].text), Strip(t.elems[3].text)>>
                             \in TripleEdges(p_G)

\* a document with five invalid triples followed by (c, la, b): only the last
\* one is in the graph, as a prepositional edge
C29_Witness ==
    /\ Len(p_rows) = 1
    /\ p_rows[1].svo_triples.kind = "list"
    /\ Len(p_rows[1].svo_triples.items) = 6
    /\ ~WellFormedTriple(p_rows[1].svo_triples.items[1])
    /\ TripleEdges(p_G) = {<< <<"c">>, <<"b">> >>}
    /\ p_G.edges[<< <<"c">>, <<"b">> >>]["category"] = "prepositional"
    /\ p_G.edges[<< <<"c">>, <<"b">> >>]["predicate"] = <<"la">>

====
